---- MODULE Spec2Model ----
(***************************************************************************)
(* State-machine model of the synchronisation primitives (banker,          *)
(* semaphores, mutexes) and of the easy-fs link accounting of the kernel.  *)
(* The kernel runs on one hart and a syscall runs to completion unless it  *)
(* blocks, so every action is one syscall up to its blocking point, or the *)
(* rest of a syscall after its thread was woken.                           *)
(***************************************************************************)
EXTENDS Integers, Sequences, FiniteSets, TLC

\* ------------------------------------------------------------------ bounds
NThreads == 3       \* threads of the process, tids 0..NThreads-1
NSems == 2          \* semaphores the process creates
MaxResCount == 1    \* largest res_count given to sys_semaphore_create, and cap of count
MaxAccess == 3      \* cap on Semaphore::down calls per semaphore (access_cnt)
MaxNeed == 1        \* cap on need[tid][sem] when a down is entered
NMutexes == 1       \* mutexes the process creates
NSyncSems == 1      \* semaphores of a process that also toggles detection, exits threads or uses mutexes
NNames == 3         \* file names used in the root directory, 1..NNames
MaxInodes == 3      \* file inodes the filesystem can allocate
MaxByte == 2        \* largest byte value a user buffer holds
DataBlocks == 44    \* data blocks of the disk
MaxIoLen == 20480   \* longest buffer given to write_at and read_at
NCallers == 2       \* kernel control flows that can be inside a VFS operation at once
NPages == 3         \* pages at which a range given to mmap or munmap starts, 0..NPages-1
MaxAreas == 3       \* areas of a memory set
MaxCopyLen == 3     \* longest range copied between kernel and user memory
MaxSlices == 3      \* physical slices a user range is split into
MaxRingOps == 4     \* calls made on one RingBuffer
NTasks == 3         \* processes, pids 0..NTasks-1; pid 0 is the init process
MaxTime == 2        \* ticks of the timer
MaxSlice == 1       \* ticks a task runs before the timer interrupt suspends it
MaxHeapPages == 2   \* pages the heap of a task can grow to

\* ------------------------------------------------------- program constants
MAX_THREADS == 16
MAX_RESOURCE == 8
ACCESS_LIMIT == 10000
DEAD == 57005       \* 0xDEAD; the syscalls return -0xDEAD
NO_HOLDER == MAX_THREADS   \* stands for usize::MAX, the lock_holder of a free mutex: no tid
BLOCK_SZ == 512
DIRENT_SZ == 32
INODE_DIRECT_COUNT == 28
INODE_INDIRECT1_COUNT == BLOCK_SZ \div 4
INDIRECT1_BOUND == INODE_DIRECT_COUNT + INODE_INDIRECT1_COUNT
PAGE_SIZE == 4096
PERM_U == 16        \* MapPermission::U; R, W and X are 2, 4 and 8
STALE == 255        \* the byte a read buffer holds before the read
MAX_RINGBUF_SIZE == 512
DEFAULT_PRIORITY == 16
DEFAULT_BIG_STRIDE == 65537
DEFAULT_PASS == DEFAULT_BIG_STRIDE \div DEFAULT_PRIORITY
IDLE_PID == 0

Tids == 0 .. (NThreads - 1)
SemIds == 0 .. (NSems - 1)

VARIABLES
    banker,          \* process_inner.sem_banker: [available, need, allocated]
    total,           \* res_count each semaphore was created with
    semaphore_list,  \* process_inner.semaphore_list: sequence of SemaphoreInner
    trace_deadlock,  \* process_inner.trace_deadlock
    task_status,     \* per thread: "Ready" (ready or running) or "Blocked"
    pc,              \* per thread: where it is in its current syscall
    frame,           \* per thread: locals of the syscall it is blocked in
    retval,          \* value returned by the last syscall that returned
    sem_ups,         \* per semaphore: Semaphore::up calls so far
    sem_returns,     \* per semaphore: Semaphore::down calls that have returned
    mutex_list,      \* process_inner.mutex_list: sequence of mutexes
    owns,            \* per thread: the mutexes it has locked and not yet unlocked
    root_dir,        \* the DirEntry records of ROOT_INODE, in on-disk order
    disk_inodes,     \* the DiskInode of every allocated file inode; inode id k at index k
    root_inode,      \* type and ref_count of the DiskInode of the root directory, inode id 0
    free_data,       \* number of free blocks in the data bitmap of the filesystem
    read_buf,        \* the buffer the last Inode::read_at was given, after the call
    user_buf,        \* the bytes of the buffer a user program passes to write
    fs_lock,         \* holder of the Mutex<EasyFileSystem>: a caller, or NoCaller when free
    vfs_pc,          \* per caller: the VFS operation it is in, its next step, and whether it is
                     \* inside a read_disk_inode/modify_disk_inode/get_block_cache closure
    memory_set,      \* memory_set of the current task: its areas and its page table
    mm_snap,         \* history: after a do_mmap that returned 0, its range and the page table
                     \* before it; after a do_munmap of that same range, that page table;
                     \* after a do_mmap that returned -1, the line it returned at
    copy,            \* a copy between a kernel buffer and user memory: arguments, memory, stage
    created,         \* what the last Inode::create returned: {} for None, {id} for Some(handle of inode id)
    ring,            \* the RingBuffer of a MailBox: data_, head_, tail_
    ring_log,        \* history of the ring: the build (overflow checks or not), the last call,
                     \* its arguments and results, the bytes stored and not yet popped, the
                     \* number of calls made
    tcbs,            \* per pid: the TaskControlBlockInner fields scheduling and exit work on
    ready_queue,     \* TASK_MANAGER: the Stride objects (stride, pid) of the queued tasks
    current,         \* PROCESSOR.current: the pid of the running task, or NoTask
    now,             \* timer::get_time()
    sched_log        \* history of scheduling: the last pick and what it was picked from, the
                     \* last deactivation, ticks run per task

procvars == <<trace_deadlock, task_status, pc, frame, retval>>
semvars == <<banker, total, semaphore_list, sem_ups, sem_returns>>
mutexvars == <<mutex_list, owns>>
lockvars == <<fs_lock, vfs_pc>>
mmvars == <<memory_set, mm_snap, copy>>
mailvars == <<ring, ring_log>>
taskvars == <<tcbs, ready_queue, current, now, sched_log>>
kernvars == <<mailvars, taskvars>>
fsvars == <<root_dir, disk_inodes, root_inode, free_data, read_buf, created, user_buf, lockvars>>

\* ------------------------------------------------------------------ Banker

\* Banker::new
BankerNew ==
    [available |-> [r \in SemIds |-> 0],
     need      |-> [t \in Tids |-> [r \in SemIds |-> 0]],
     allocated |-> [t \in Tids |-> [r \in SemIds |-> 0]]]

\* One sweep of `for i in 0..MAX_THREADS` inside Banker::is_safe, from thread i on.
\* The rows of the tids from NThreads on are zero in every banker here: such a
\* thread always finishes and adds nothing to work, so the sweep stops at NThreads.
RECURSIVE SafePass(_, _, _, _, _)
SafePass(b, i, work, finish, found) ==
    IF i = NThreads THEN [work |-> work, finish |-> finish, found |-> found]
    ELSE IF finish[i] THEN SafePass(b, i + 1, work, finish, found)
    ELSE IF \A j \in SemIds : b.need[i][j] <= work[j]
         THEN SafePass(b, i + 1,
                       [j \in SemIds |-> work[j] + b.allocated[i][j]],
                       [finish EXCEPT ![i] = TRUE], TRUE)
         ELSE SafePass(b, i + 1, work, finish, found)

\* The outer `loop` of Banker::is_safe: sweeps until one finds nothing.
RECURSIVE SafeLoop(_, _, _)
SafeLoop(b, work, finish) ==
    LET p == SafePass(b, 0, work, finish, FALSE)
    IN  IF p.found THEN SafeLoop(b, p.work, p.finish) ELSE p.finish

\* Banker::is_safe without the outer `loop`: one sweep over the threads only.
is_safe_single_sweep(b) ==
    LET p == SafePass(b, 0, b.available, [i \in Tids |-> FALSE], FALSE)
    IN  \A i \in Tids : p.finish[i] = TRUE

\* Banker::is_safe
is_safe(b) ==
    LET finish == SafeLoop(b, b.available, [i \in Tids |-> FALSE])
    IN  \A i \in Tids : finish[i] = TRUE

\* Banker::try_allocate_one (the banker after the call)
try_allocate_one(b, thread_id, resource_id) ==
    IF thread_id > MAX_THREADS THEN b
    ELSE IF resource_id >= MAX_RESOURCE \/ b.need[thread_id][resource_id] = 0 THEN b
    ELSE IF b.available[resource_id] = 0 THEN b
    ELSE LET granted == [b EXCEPT !.available[resource_id] = @ - 1,
                                  !.allocated[thread_id][resource_id] = @ + 1,
                                  !.need[thread_id][resource_id] = @ - 1]
         IN  IF ~is_safe(granted)
             THEN [granted EXCEPT !.available[resource_id] = @ + 1,
                                  !.allocated[thread_id][resource_id] = @ - 1,
                                  !.need[thread_id][resource_id] = @ + 1]
             ELSE granted

\* Banker::try_deallocate_one (the banker after the call)
try_deallocate_one(b, thread_id, resource_id) ==
    IF thread_id > MAX_THREADS \/ resource_id >= MAX_RESOURCE
       \/ b.allocated[thread_id][resource_id] = 0
    THEN b
    ELSE [b EXCEPT !.available[resource_id] = @ + 1,
                   !.allocated[thread_id][resource_id] = @ - 1,
                   !.need[thread_id][resource_id] = @ + 1]

\* Banker::allocate_one_nocheck without `available[resource_id] -= 1`.
allocate_one_keep_available(b, thread_id, resource_id) ==
    IF thread_id > MAX_THREADS THEN b
    ELSE IF resource_id >= MAX_RESOURCE \/ b.need[thread_id][resource_id] = 0 THEN b
    ELSE IF b.available[resource_id] = 0 THEN b
    ELSE [b EXCEPT !.need[thread_id][resource_id] = @ - 1,
                   !.allocated[thread_id][resource_id] = @ + 1]

\* Banker::allocate_one_nocheck (the banker after the call)
allocate_one_nocheck(b, thread_id, resource_id) ==
    IF thread_id > MAX_THREADS THEN b
    ELSE IF resource_id >= MAX_RESOURCE \/ b.need[thread_id][resource_id] = 0 THEN b
    ELSE IF b.available[resource_id] = 0 THEN b
    ELSE [b EXCEPT !.need[thread_id][resource_id] = @ - 1,
                   !.available[resource_id] = @ - 1,
                   !.allocated[thread_id][resource_id] = @ + 1]

\* Banker::dyn_expand_dealloc (the banker after the call)
dyn_expand_dealloc(b, thread_id, resource_id) ==
    IF thread_id > MAX_THREADS \/ resource_id >= MAX_RESOURCE
       \/ b.allocated[thread_id][resource_id] = 0
    THEN b
    ELSE [b EXCEPT !.available[resource_id] = @ + 1,
                   !.allocated[thread_id][resource_id] = @ - 1]

\* Banker::setup_resources (the banker after the call)
setup_resources(b, resource_id, max_available) ==
    IF resource_id > MAX_RESOURCE THEN b
    ELSE [b EXCEPT !.available[resource_id] = max_available]

\* Banker::destroy_thread (the banker after the call)
destroy_thread(b, thread_id) ==
    IF thread_id > MAX_THREADS THEN b
    ELSE [b EXCEPT
            !.available = [r \in SemIds |-> b.available[r] + b.allocated[thread_id][r]],
            !.allocated[thread_id] = [r \in SemIds |-> 0],
            !.need[thread_id] = [r \in SemIds |-> 0]]

\* `banker.exclusive_access().need[tid][sem_id] += 1` of sys_semaphore_down
need_inc(b, tid, sem_id) == [b EXCEPT !.need[tid][sem_id] = @ + 1]

\* sys_semaphore_down without the `need[tid][sem_id] -= 1` of the refusal.
need_dec_skipped(b, tid, sem_id) == b

\* `banker.exclusive_access().need[tid][sem_id] -= 1` of sys_semaphore_down
need_dec(b, tid, sem_id) == [b EXCEPT !.need[tid][sem_id] = @ - 1]

\* --------------------------------------------------------------- Semaphore

\* Semaphore::new
SemaphoreNew(res_count) ==
    [count |-> res_count, access_cnt |-> 0, wait_queue |-> <<>>]

\* Semaphore::up with pop_back in place of pop_front.
SemaphoreUpPopBack(sem) ==
    LET c == sem.count + 1
        n == Len(sem.wait_queue)
    IN  IF c <= 0 /\ sem.wait_queue # <<>>
        THEN [sem   |-> [sem EXCEPT !.count = c,
                                    !.wait_queue = SubSeq(sem.wait_queue, 1, n - 1)],
              woken |-> {sem.wait_queue[n]}]
        ELSE [sem |-> [sem EXCEPT !.count = c], woken |-> {}]

\* Semaphore::up: the semaphore after the call and the threads it woke.
SemaphoreUp(sem) ==
    LET c == sem.count + 1
    IN  IF c <= 0 /\ sem.wait_queue # <<>>
        THEN [sem   |-> [sem EXCEPT !.count = c, !.wait_queue = Tail(sem.wait_queue)],
              woken |-> {Head(sem.wait_queue)}]
        ELSE [sem |-> [sem EXCEPT !.count = c], woken |-> {}]

\* Semaphore::down with `count <= 0` in place of `count < 0`.
SemaphoreDownBlockAtZero(sem, tid) ==
    LET c == sem.count - 1
        a == sem.access_cnt + 1
    IN  [sem    |-> [sem EXCEPT !.count = c, !.access_cnt = a,
                                !.wait_queue = IF c <= 0 THEN Append(@, tid) ELSE @],
         blocks |-> c <= 0,
         ret    |-> a >= ACCESS_LIMIT]

\* Semaphore::down up to its blocking point: the semaphore after it, whether the
\* caller blocks, and the value `ret` that down returns.
SemaphoreDown(sem, tid) ==
    LET c == sem.count - 1
        a == sem.access_cnt + 1
    IN  [sem    |-> [sem EXCEPT !.count = c, !.access_cnt = a,
                                !.wait_queue = IF c < 0 THEN Append(@, tid) ELSE @],
         blocks |-> c < 0,
         ret    |-> a >= ACCESS_LIMIT]

\* ------------------------------------------------------------ process state

Alive(t) == pc[t] # "exited"

\* ProcessControlBlockInner::thread_count: the threads that have not exited
thread_count == Cardinality({t \in Tids : Alive(t)})

\* the `cnt` loop of sys_semaphore_down: threads whose status is Blocked
blocked_count == Cardinality({t \in Tids : Alive(t) /\ task_status[t] = "Blocked"})

NoFrame == [id |-> 0, ret |-> FALSE]

ProcInit ==
    /\ trace_deadlock = FALSE
    /\ task_status = [t \in Tids |-> "Ready"]
    /\ pc = [t \in Tids |-> "user"]
    /\ frame = [t \in Tids |-> NoFrame]
    /\ retval = 0

SemInit ==
    /\ banker = BankerNew
    /\ total = [r \in SemIds |-> 0]
    /\ semaphore_list = <<>>
    /\ sem_ups = [r \in SemIds |-> 0]
    /\ sem_returns = [r \in SemIds |-> 0]

MutexInit ==
    /\ mutex_list = <<>>
    /\ owns = [t \in Tids |-> {}]

\* A thread can enter a syscall when it is in user code (it is scheduled at some
\* trap boundary).
InUser(t) == pc[t] = "user" /\ task_status[t] = "Ready"

\* wakeup_task for every thread in ws: Blocked -> Ready, back on the ready queue.
WakeStatus(ws) == [u \in Tids |-> IF u \in ws THEN "Ready" ELSE task_status[u]]

\* sys_enable_deadlock_detect
SysEnableDeadlockDetect(t, enabled) ==
    /\ InUser(t)
    /\ trace_deadlock' = (enabled # 0)
    /\ retval' = 0
    /\ UNCHANGED <<task_status, pc, frame, semvars, mutexvars, fsvars, mmvars, kernvars>>

\* ------------------------------------------------------ semaphore syscalls

\* sys_semaphore_create -> ProcessControlBlock::new_semaphore: the new semaphore
\* takes the next id and the banker is told its resource count.
SysSemaphoreCreate(t, res_count) ==
    /\ InUser(t)
    /\ Len(semaphore_list) < NSems
    /\ LET id == Len(semaphore_list)
       IN  /\ semaphore_list' = Append(semaphore_list, SemaphoreNew(res_count))
           /\ banker' = setup_resources(banker, id, res_count)
           /\ total' = [total EXCEPT ![id] = res_count]
           /\ retval' = id
    /\ UNCHANGED <<trace_deadlock, task_status, pc, frame, sem_ups, sem_returns, mutexvars, fsvars, mmvars, kernvars>>

\* sys_semaphore_up
SysSemaphoreUp(t, sem_id) ==
    /\ InUser(t)
    /\ sem_id < Len(semaphore_list)
    /\ semaphore_list[sem_id + 1].count < MaxResCount
    /\ LET r == SemaphoreUp(semaphore_list[sem_id + 1])
       IN  /\ banker' = dyn_expand_dealloc(banker, t, sem_id)
           /\ semaphore_list' = [semaphore_list EXCEPT ![sem_id + 1] = r.sem]
           /\ task_status' = WakeStatus(r.woken)
           /\ pc' = [u \in Tids |-> IF u \in r.woken THEN "down_woken" ELSE pc[u]]
    /\ sem_ups' = [sem_ups EXCEPT ![sem_id] = @ + 1]
    /\ retval' = 0
    /\ UNCHANGED <<total, trace_deadlock, frame, sem_returns, mutexvars, fsvars, mmvars, kernvars>>

\* sys_semaphore_down, lines 153-162: the request is refused by the banker.
DownVetoed(t, sem_id) ==
    /\ trace_deadlock
    /\ ~is_safe(need_inc(banker, t, sem_id))
    /\ banker' = need_dec(need_inc(banker, t, sem_id), t, sem_id)
    /\ retval' = -DEAD
    /\ UNCHANGED <<total, semaphore_list, sem_ups, sem_returns, trace_deadlock,
                   task_status, pc, frame, mutexvars, fsvars, mmvars, kernvars>>

\* sys_semaphore_down, lines 163-172: every other thread is Blocked.
DownAllBlocked(t, sem_id) ==
    /\ trace_deadlock
    /\ is_safe(need_inc(banker, t, sem_id))
    /\ blocked_count >= thread_count - 1
    /\ banker' = need_inc(banker, t, sem_id)
    /\ retval' = -DEAD
    /\ UNCHANGED <<total, semaphore_list, sem_ups, sem_returns, trace_deadlock,
                   task_status, pc, frame, mutexvars, fsvars, mmvars, kernvars>>

\* the value sys_semaphore_down returns after Semaphore::down returned ret
DownReturn(ret) == IF ret THEN 0 ELSE -DEAD

\* sys_semaphore_down, lines 177-180: Semaphore::down, then the allocation if
\* the caller did not block.
DownProceed(t, sem_id) ==
    /\ \/ ~trace_deadlock
       \/ /\ is_safe(need_inc(banker, t, sem_id))
          /\ blocked_count < thread_count - 1
    /\ semaphore_list[sem_id + 1].access_cnt < MaxAccess
    /\ LET d == SemaphoreDown(semaphore_list[sem_id + 1], t)
       IN  /\ semaphore_list' = [semaphore_list EXCEPT ![sem_id + 1] = d.sem]
           /\ IF d.blocks
              THEN /\ banker' = need_inc(banker, t, sem_id)
                   /\ task_status' = [task_status EXCEPT ![t] = "Blocked"]
                   /\ pc' = [pc EXCEPT ![t] = "down_blocked"]
                   /\ frame' = [frame EXCEPT ![t] = [id |-> sem_id, ret |-> d.ret]]
                   /\ UNCHANGED <<retval, sem_returns>>
              ELSE /\ banker' = allocate_one_nocheck(need_inc(banker, t, sem_id), t, sem_id)
                   /\ retval' = DownReturn(d.ret)
                   /\ sem_returns' = [sem_returns EXCEPT ![sem_id] = @ + 1]
                   /\ UNCHANGED <<task_status, pc, frame>>
    /\ UNCHANGED <<total, sem_ups, trace_deadlock, mutexvars, fsvars, mmvars, kernvars>>

\* sys_semaphore_down
SysSemaphoreDown(t, sem_id) ==
    /\ InUser(t)
    /\ sem_id < Len(semaphore_list)
    /\ banker.need[t][sem_id] < MaxNeed
    /\ \/ DownVetoed(t, sem_id)
       \/ DownAllBlocked(t, sem_id)
       \/ DownProceed(t, sem_id)

\* sys_semaphore_down, lines 179-180, of a thread that blocked in Semaphore::down
\* and was woken: it runs again, allocates and returns.
SysSemaphoreDownResume(t) ==
    /\ pc[t] = "down_woken"
    /\ task_status[t] = "Ready"
    /\ banker' = allocate_one_nocheck(banker, t, frame[t].id)
    /\ retval' = DownReturn(frame[t].ret)
    /\ sem_returns' = [sem_returns EXCEPT ![frame[t].id] = @ + 1]
    /\ pc' = [pc EXCEPT ![t] = "user"]
    /\ frame' = [frame EXCEPT ![t] = NoFrame]
    /\ UNCHANGED <<total, semaphore_list, sem_ups, trace_deadlock, task_status, mutexvars, fsvars, mmvars, kernvars>>

\* A thread other than the main thread exits: the process releases what the
\* banker recorded for it.
ThreadExit(t) ==
    /\ t # 0
    /\ InUser(t)
    /\ banker' = destroy_thread(banker, t)
    /\ pc' = [pc EXCEPT ![t] = "exited"]
    /\ UNCHANGED <<total, semaphore_list, sem_ups, sem_returns, trace_deadlock,
                   task_status, frame, retval, mutexvars, fsvars, mmvars, kernvars>>

\* ---------------------------------------------------------------- mutexes

\* MutexSpin::new
MutexSpinNew ==
    [blocking |-> FALSE, locked |-> FALSE, wait_queue |-> <<>>, lock_holder |-> NO_HOLDER]

\* MutexBlocking::new
MutexBlockingNew ==
    [blocking |-> TRUE, locked |-> FALSE, wait_queue |-> <<>>, lock_holder |-> NO_HOLDER]

\* MutexBlocking::trace_lock_is_dead
trace_lock_is_dead(inner, current_tid) ==
    IF inner.lock_holder = current_tid THEN TRUE
    ELSE \E k \in 1 .. Len(inner.wait_queue) : inner.wait_queue[k] = current_tid

\* Mutex::try_trace_lock_is_dead: the trait default for MutexSpin, the override
\* for MutexBlocking
try_trace_lock_is_dead(m, current_tid) ==
    IF ~m.blocking THEN FALSE
    ELSE IF ~trace_deadlock THEN FALSE
    ELSE IF m.locked = FALSE THEN FALSE
    ELSE trace_lock_is_dead(m, current_tid)

\* MutexBlocking::lock up to its blocking point: the mutex after it and whether
\* the caller blocks.
MutexBlockingLock(m, tid) ==
    IF m.locked
    THEN [mutex |-> [m EXCEPT !.wait_queue = Append(@, tid)], blocks |-> TRUE]
    ELSE [mutex |-> [m EXCEPT !.locked = TRUE, !.lock_holder = tid], blocks |-> FALSE]

\* MutexBlocking::unlock that clears `locked` also when it wakes a waiter.
MutexBlockingUnlockRelease(m) ==
    IF m.wait_queue # <<>>
    THEN [mutex |-> [m EXCEPT !.wait_queue = Tail(@), !.locked = FALSE],
          woken |-> {Head(m.wait_queue)}]
    ELSE [mutex |-> [m EXCEPT !.locked = FALSE, !.lock_holder = NO_HOLDER], woken |-> {}]

\* MutexBlocking::unlock that pops the waiter and does not wake it.
MutexBlockingUnlockLostWakeup(m) ==
    IF m.wait_queue # <<>>
    THEN [mutex |-> [m EXCEPT !.wait_queue = Tail(@)], woken |-> {}]
    ELSE [mutex |-> [m EXCEPT !.locked = FALSE, !.lock_holder = NO_HOLDER], woken |-> {}]

\* MutexBlocking::unlock: the mutex after the call and the threads it woke.
MutexBlockingUnlock(m) ==
    IF m.wait_queue # <<>>
    THEN [mutex |-> [m EXCEPT !.wait_queue = Tail(@)], woken |-> {Head(m.wait_queue)}]
    ELSE [mutex |-> [m EXCEPT !.locked = FALSE, !.lock_holder = NO_HOLDER], woken |-> {}]

\* One turn of the loop of MutexSpin::lock: the mutex after it and whether the
\* caller got the lock (otherwise it yields and tries again).
MutexSpinLock(m) ==
    IF m.locked THEN [mutex |-> m, acquired |-> FALSE]
    ELSE [mutex |-> [m EXCEPT !.locked = TRUE], acquired |-> TRUE]

\* MutexSpin::unlock
MutexSpinUnlock(m) == [m EXCEPT !.locked = FALSE]

\* sys_mutex_create
SysMutexCreate(t, blocking) ==
    /\ InUser(t)
    /\ Len(mutex_list) < NMutexes
    /\ mutex_list' = Append(mutex_list, IF blocking THEN MutexBlockingNew ELSE MutexSpinNew)
    /\ retval' = Len(mutex_list)
    /\ UNCHANGED <<trace_deadlock, task_status, pc, frame, owns, semvars, fsvars, mmvars, kernvars>>

\* sys_mutex_lock on a blocking mutex
LockBlocking(t, mutex_id) ==
    LET m == mutex_list[mutex_id + 1]
        l == MutexBlockingLock(m, t)
    IN  /\ m.blocking = TRUE
        /\ IF try_trace_lock_is_dead(m, t)
           THEN /\ retval' = -DEAD
                /\ UNCHANGED <<mutex_list, owns, task_status, pc, frame>>
           ELSE /\ mutex_list' = [mutex_list EXCEPT ![mutex_id + 1] = l.mutex]
                /\ IF l.blocks
                   THEN /\ task_status' = [task_status EXCEPT ![t] = "Blocked"]
                        /\ pc' = [pc EXCEPT ![t] = "lock_blocked"]
                        /\ frame' = [frame EXCEPT ![t] = [id |-> mutex_id, ret |-> FALSE]]
                        /\ UNCHANGED <<retval, owns>>
                   ELSE /\ owns' = [owns EXCEPT ![t] = @ \cup {mutex_id}]
                        /\ retval' = 0
                        /\ UNCHANGED <<task_status, pc, frame>>

\* sys_mutex_lock on a spin mutex: the first turn of the loop
LockSpin(t, mutex_id) ==
    LET m == mutex_list[mutex_id + 1]
        l == MutexSpinLock(m)
    IN  /\ m.blocking = FALSE
        /\ mutex_list' = [mutex_list EXCEPT ![mutex_id + 1] = l.mutex]
        /\ IF l.acquired
           THEN /\ owns' = [owns EXCEPT ![t] = @ \cup {mutex_id}]
                /\ retval' = 0
                /\ UNCHANGED <<task_status, pc, frame>>
           ELSE /\ pc' = [pc EXCEPT ![t] = "spin_wait"]
                /\ frame' = [frame EXCEPT ![t] = [id |-> mutex_id, ret |-> FALSE]]
                /\ UNCHANGED <<retval, owns, task_status>>

\* sys_mutex_lock
SysMutexLock(t, mutex_id) ==
    /\ InUser(t)
    /\ mutex_id < Len(mutex_list)
    /\ \/ LockBlocking(t, mutex_id)
       \/ LockSpin(t, mutex_id)
    /\ UNCHANGED <<trace_deadlock, semvars, fsvars, mmvars, kernvars>>

\* MutexSpin::lock of a thread that yielded in the loop and runs again
MutexSpinRetry(t) ==
    /\ pc[t] = "spin_wait"
    /\ LET l == MutexSpinLock(mutex_list[frame[t].id + 1])
       IN  /\ l.acquired = TRUE
           /\ mutex_list' = [mutex_list EXCEPT ![frame[t].id + 1] = l.mutex]
           /\ owns' = [owns EXCEPT ![t] = @ \cup {frame[t].id}]
    /\ retval' = 0
    /\ pc' = [pc EXCEPT ![t] = "user"]
    /\ frame' = [frame EXCEPT ![t] = NoFrame]
    /\ UNCHANGED <<trace_deadlock, task_status, semvars, fsvars, mmvars, kernvars>>

\* sys_mutex_lock of a thread that blocked in MutexBlocking::lock and was woken:
\* lock returns and the syscall returns 0.
SysMutexLockResume(t) ==
    /\ pc[t] = "lock_woken"
    /\ task_status[t] = "Ready"
    /\ retval' = 0
    /\ pc' = [pc EXCEPT ![t] = "user"]
    /\ frame' = [frame EXCEPT ![t] = NoFrame]
    /\ UNCHANGED <<trace_deadlock, task_status, mutexvars, semvars, fsvars, mmvars, kernvars>>

\* sys_mutex_unlock, called by a thread that has locked the mutex. A thread woken
\* by MutexBlocking::unlock is handed the mutex.
SysMutexUnlock(t, mutex_id) ==
    /\ InUser(t)
    /\ mutex_id < Len(mutex_list)
    /\ mutex_id \in owns[t]
    /\ LET m == mutex_list[mutex_id + 1]
           u == IF m.blocking THEN MutexBlockingUnlock(m)
                ELSE [mutex |-> MutexSpinUnlock(m), woken |-> {}]
       IN  /\ mutex_list' = [mutex_list EXCEPT ![mutex_id + 1] = u.mutex]
           /\ task_status' = WakeStatus(u.woken)
           /\ pc' = [w \in Tids |-> IF w \in u.woken THEN "lock_woken" ELSE pc[w]]
           /\ owns' = [w \in Tids |->
                         IF w \in u.woken THEN owns[w] \cup {mutex_id}
                         ELSE IF w = t THEN owns[w] \ {mutex_id}
                         ELSE owns[w]]
    /\ retval' = 0
    /\ UNCHANGED <<trace_deadlock, frame, semvars, fsvars, mmvars, kernvars>>

\* -------------------------------------------------------------- filesystem

FileNames == 1 .. NNames

\* bytes a user buffer can hold: 0 and the values 1..MaxByte
Bytes == 0 .. MaxByte

\* n bytes of value b
Fill(n, b) == [k \in 1 .. n |-> b]

Min(a, b) == IF a <= b THEN a ELSE b

Callers == 1 .. NCallers
NoCaller == 0

\* no caller is inside a VFS operation and the filesystem lock is free
LockInit ==
    /\ fs_lock = NoCaller
    /\ vfs_pc = [c \in Callers |-> [op |-> "none", at |-> 1, in_cache |-> FALSE]]

\* The lock and block-cache steps of every path through every public
\* operation of Inode, in program order. "lock" and "unlock" are the
\* acquisition and the drop of a guard of self.fs.lock(); "enter" and "exit"
\* are the start and the end of a closure run on a cached block by
\* read_disk_inode, modify_disk_inode or get_block_cache(..).lock().
VfsPaths ==
    [find |->                 \* lines 81, 82, 92, 93
        <<"lock", "enter", "exit", "unlock">>,
     create_exists |->        \* lines 123, 130, 130, 131
        <<"lock", "enter", "exit", "unlock">>,
     create |->               \* lines 123, 130, 130, 138, 142, 143, 156, 168
        <<"lock", "enter", "exit", "enter", "exit", "enter", "exit", "unlock">>,
     hard_link_exists |->     \* lines 173, 173, 174, 174
        <<"enter", "exit", "enter", "exit">>,
     hard_link |->            \* lines 173, 173, 174, 174, 177 (get_id), 177, 178, 178,
                              \* 179, 183 (the guard given to increase_size), 183, 187
        <<"enter", "exit", "enter", "exit", "lock", "unlock", "enter", "exit",
          "enter", "lock", "unlock", "exit">>,
     hard_unlink_not_dir |->  \* lines 194, 194
        <<"enter", "exit">>,
     hard_unlink_double_free |->  \* lines 194, 194, 197, 197
        <<"enter", "exit", "enter", "exit">>,
     hard_unlink_alive |->    \* lines 194, 194, 197, 197, 200, 200
        <<"enter", "exit", "enter", "exit", "enter", "exit">>,
     hard_unlink_not_found |->  \* ... 200, 205 (get_id), 205, 207, 214
        <<"enter", "exit", "enter", "exit", "enter", "exit", "lock", "unlock",
          "enter", "exit">>,
     hard_unlink |->          \* ... 205, 205, 207, 223 (the guard given to
                              \* decrease_size), 223, 226
        <<"enter", "exit", "enter", "exit", "enter", "exit", "lock", "unlock",
          "enter", "lock", "unlock", "exit">>,
     ls |->                   \* lines 236, 237, 249, 250
        <<"lock", "enter", "exit", "unlock">>,
     read_at |->              \* lines 253, 254, 254, 255
        <<"lock", "enter", "exit", "unlock">>,
     write_at |->             \* lines 258, 259, 262, 265
        <<"lock", "enter", "exit", "unlock">>,
     clear |->                \* lines 268, 269, 276, 278
        <<"lock", "enter", "exit", "unlock">>,
     is_dir_file |->          \* lines 293, 295
        <<"enter", "exit">>,
     get_ref_count |->        \* lines 299, 301
        <<"enter", "exit">>]

VfsOps == DOMAIN VfsPaths

\* a caller enters a VFS operation
VfsCall(c, op) ==
    /\ vfs_pc[c].op = "none"
    /\ vfs_pc' = [vfs_pc EXCEPT ![c] = [op |-> op, at |-> 1, in_cache |-> FALSE]]
    /\ UNCHANGED <<fs_lock, root_dir, disk_inodes, free_data, read_buf, created, user_buf, root_inode>>
    /\ UNCHANGED <<procvars, semvars, mutexvars, mmvars, kernvars>>

\* a caller takes the next lock or cache step of its operation; spin::Mutex
\* makes "lock" wait until the lock is free; after its last step the
\* operation returns
VfsStep(c) ==
    /\ vfs_pc[c].op # "none"
    /\ LET path == VfsPaths[vfs_pc[c].op]
           kind == path[vfs_pc[c].at]
           next == IF vfs_pc[c].at = Len(path)
                   THEN [op |-> "none", at |-> 1]
                   ELSE [op |-> vfs_pc[c].op, at |-> vfs_pc[c].at + 1]
       IN  /\ kind = "lock" => fs_lock = NoCaller
           /\ fs_lock' = (IF kind = "lock" THEN c
                          ELSE IF kind = "unlock" THEN NoCaller
                          ELSE fs_lock)
           /\ vfs_pc' = [vfs_pc EXCEPT ![c] =
                            [op |-> next.op, at |-> next.at,
                             in_cache |-> IF kind = "enter" THEN TRUE
                                          ELSE IF kind = "exit" THEN FALSE
                                          ELSE @.in_cache]]
    /\ UNCHANGED <<root_dir, disk_inodes, free_data, read_buf, created, user_buf, root_inode>>
    /\ UNCHANGED <<procvars, semvars, mutexvars, mmvars, kernvars>>

\* the state after EasyFileSystem::create and ROOT_INODE's construction: inode 0
\* is the root directory, which is empty and holds no data block
FsInit ==
    /\ root_dir = <<>>
    /\ disk_inodes = <<>>
    /\ root_inode = [type |-> "Dir", ref_count |-> 1]
    /\ free_data = DataBlocks
    /\ read_buf = <<>>
    /\ created = {}
    /\ user_buf = <<>>
    /\ LockInit

\* DirEntry::new
DirEntryNew(name, inode_id) == [name |-> name, inode_id |-> inode_id]

\* the least element of a non-empty set of numbers
First(S) == CHOOSE k \in S : \A l \in S : k <= l

\* DiskInode::_data_blocks: (size + BLOCK_SZ - 1) / BLOCK_SZ
data_blocks(size) == (size + BLOCK_SZ - 1) \div BLOCK_SZ

\* DiskInode::total_blocks: the data blocks of a file of this size and the
\* index blocks that reach them
total_blocks(size) ==
    LET d == data_blocks(size)
    IN  d + (IF d > INODE_DIRECT_COUNT THEN 1 ELSE 0)
          + (IF d > INDIRECT1_BOUND
             THEN 1 + (d - INDIRECT1_BOUND + INODE_INDIRECT1_COUNT - 1)
                          \div INODE_INDIRECT1_COUNT
             ELSE 0)

\* DiskInode::blocks_num_needed
blocks_num_needed(di, new_size) == total_blocks(new_size) - total_blocks(di.size)

\* DiskInode::initialize(DiskInodeType::File)
DiskInodeInitialize == [type |-> "File", ref_count |-> 1, size |-> 0, data |-> <<>>]

\* DiskInode::increase_size: the new region reads as zeros
DiskInodeIncreaseSize(di, new_size) ==
    [di EXCEPT !.size = new_size, !.data = @ \o Fill(new_size - di.size, 0)]

\* DiskInode::dealloc_to: the inode after it and the number of blocks it returns
dealloc_to(di, new_size) ==
    [inode |-> [di EXCEPT !.size = new_size, !.data = SubSeq(@, 1, new_size)],
     freed |-> total_blocks(di.size) - total_blocks(new_size)]

\* DiskInode::clear_size: the inode after it and the number of blocks it returns
clear_size(di) ==
    [inode |-> [di EXCEPT !.size = 0, !.data = <<>>], freed |-> total_blocks(di.size)]

\* DiskInode::read_at: the bytes copied to the front of buf; their number is
\* the value returned
DiskInodeReadAt(di, offset, len) ==
    LET end == Min(offset + len, di.size)
    IN  IF offset >= end THEN <<>> ELSE SubSeq(di.data, offset + 1, end)

\* DiskInode::write_at: the inode after it and the number of bytes written;
\* it writes inside [0, size) only (the code asserts offset <= end)
DiskInodeWriteAt(di, offset, buf) ==
    LET end == Min(offset + Len(buf), di.size)
    IN  [inode   |-> [di EXCEPT !.data =
                         [k \in 1 .. Len(@) |->
                             IF k > offset /\ k <= end THEN buf[k - offset] ELSE @[k]]],
         written |-> end - offset]

\* DiskInode::refthis
refthis(di) == [di EXCEPT !.ref_count = @ + 1]

\* DiskInode::unref: the inode after it and the `alive` it returns
unref(di) == [inode |-> [di EXCEPT !.ref_count = @ - 1], alive |-> di.ref_count - 1 > 0]

\* the size field of the root directory's DiskInode
DirSize(dir) == DIRENT_SZ * Len(dir)

\* Inode::find_inode_id: Some(inode id) as {id}, None as {}
find_inode_id(name, dir) ==
    LET hits == {k \in 1 .. Len(dir) : dir[k].name = name}
    IN  IF hits = {} THEN {} ELSE {dir[First(hits)].inode_id}

\* Inode::find_entry_by_inode: Some(index) as {index}, None as {}; the entry
\* the code numbers i is at index i + 1 here
find_entry_by_inode(inode_id, dir) ==
    LET hits == {k \in 1 .. Len(dir) : dir[k].inode_id = inode_id}
    IN  IF hits = {} THEN {} ELSE {First(hits)}

\* Inode::increase_size on a file inode: the inode after it and the number of
\* blocks it took from fs.alloc_data
increase_size(new_size, di) ==
    IF new_size < di.size THEN [inode |-> di, alloc |-> 0]
    ELSE [inode |-> DiskInodeIncreaseSize(di, new_size),
          alloc |-> blocks_num_needed(di, new_size)]

\* Inode::increase_size on the root directory, whose bytes are its entries:
\* the number of blocks it takes from fs.alloc_data
dir_increase_size(new_size, dir) ==
    IF new_size < DirSize(dir) THEN 0
    ELSE total_blocks(new_size) - total_blocks(DirSize(dir))

\* Inode::decrease_size on the root directory: the directory cut to new_size
\* and the number of blocks given to fs.dealloc_data
decrease_size(new_size, dir) ==
    IF new_size > DirSize(dir) THEN [dir |-> dir, freed |-> 0]
    ELSE [dir   |-> SubSeq(dir, 1, new_size \div DIRENT_SZ),
          freed |-> total_blocks(DirSize(dir)) - total_blocks(new_size)]

\* Inode::is_dir_file().0 of a file inode
is_dir(inodes, id) == inodes[id].type = "Dir"

\* Inode::get_ref_count that never reports 0
get_ref_count_nonzero(inodes, id) ==
    IF inodes[id].ref_count = 0 THEN 1 ELSE inodes[id].ref_count

\* Inode::get_ref_count
get_ref_count(inodes, id) ==
    inodes[id].ref_count

\* Inode::hard_link without the refthis of line 178
hard_link_no_refthis(dir, inodes, from_id, to_name) ==
    IF find_inode_id(to_name, dir) # {}
    THEN [ok |-> FALSE, dir |-> dir, inodes |-> inodes, alloc |-> 0]
    ELSE [ok     |-> TRUE,
          dir    |-> Append(dir, DirEntryNew(to_name, from_id)),
          inodes |-> inodes,
          alloc  |-> dir_increase_size(DirSize(dir) + DIRENT_SZ, dir)]

\* Inode::hard_link on the root directory; alloc is the number of data blocks
\* the directory took
hard_link(dir, inodes, from_id, to_name) ==
    IF find_inode_id(to_name, dir) # {}
    THEN [ok |-> FALSE, dir |-> dir, inodes |-> inodes, alloc |-> 0]
    ELSE [ok     |-> TRUE,
          dir    |-> Append(dir, DirEntryNew(to_name, from_id)),
          inodes |-> [inodes EXCEPT ![from_id] = refthis(@)],
          alloc  |-> dir_increase_size(DirSize(dir) + DIRENT_SZ, dir)]

\* Inode::hard_unlink on the root directory (which is a directory, so the first
\* test of the code passes); freed is the number of data blocks given back.
\* ent_back is the code's ent_back + 1. On an empty directory line 210 computes
\* 0 - 1 in u32: a build with overflow checks panics there, any other build
\* wraps and goes on to the Err of line 214, which is the outcome kept here;
\* unref has been applied in both.
hard_unlink(dir, inodes, file_id) ==
    IF get_ref_count(inodes, file_id) = 0
    THEN [ok |-> FALSE, dir |-> dir, inodes |-> inodes, freed |-> 0]
    ELSE LET u == unref(inodes[file_id])
             unrefd == [inodes EXCEPT ![file_id] = u.inode]
             file_ent == find_entry_by_inode(file_id, dir)
             ent_back == Len(dir)
         IN  IF u.alive THEN [ok |-> TRUE, dir |-> dir, inodes |-> unrefd, freed |-> 0]
             ELSE IF file_ent = {}
                  THEN [ok |-> FALSE, dir |-> dir, inodes |-> unrefd, freed |-> 0]
             ELSE LET e == First(file_ent)
                      swapped == IF ent_back # e THEN [dir EXCEPT ![e] = dir[ent_back]]
                                 ELSE dir
                      cut == decrease_size(DirSize(dir) - DIRENT_SZ, swapped)
                  IN  [ok |-> TRUE, dir |-> cut.dir, inodes |-> unrefd,
                       freed |-> cut.freed]

\* fs::link_file
link_file(dir, inodes, from_name, to_name) ==
    LET none == [ok |-> FALSE, dir |-> dir, inodes |-> inodes, alloc |-> 0]
    IN  IF from_name = to_name THEN none
        ELSE IF find_inode_id(from_name, dir) = {} THEN none
        ELSE IF is_dir(inodes, First(find_inode_id(from_name, dir))) THEN none
        ELSE IF find_inode_id(to_name, dir) # {} THEN none
        ELSE hard_link(dir, inodes, First(find_inode_id(from_name, dir)), to_name)

\* fs::unlink_file
unlink_file(dir, inodes, filename) ==
    LET err == [ok |-> FALSE, dir |-> dir, inodes |-> inodes, freed |-> 0]
    IN  IF find_inode_id(filename, dir) = {} THEN err
        ELSE IF is_dir(inodes, First(find_inode_id(filename, dir))) THEN err
        ELSE hard_unlink(dir, inodes, First(find_inode_id(filename, dir)))

\* Inode::create without the test of lines 130-132 for an entry of this name
create_unchecked(name) ==
    /\ LET new_inode_id == Len(disk_inodes) + 1
           alloc == dir_increase_size((Len(root_dir) + 1) * DIRENT_SZ, root_dir)
       IN  /\ Len(disk_inodes) < MaxInodes
           /\ alloc <= free_data
           /\ disk_inodes' = Append(disk_inodes, DiskInodeInitialize)
           /\ root_dir' = Append(root_dir, DirEntryNew(name, new_inode_id))
           /\ free_data' = free_data - alloc
           /\ created' = {new_inode_id}
           /\ UNCHANGED read_buf
    /\ UNCHANGED <<procvars, semvars, mutexvars, user_buf, lockvars, root_inode, mmvars, kernvars>>

\* Inode::create on ROOT_INODE: None if the name exists, else a new file inode
\* and its entry at the end of the directory. fs.alloc_inode and fs.alloc_data
\* panic when the disk has no free inode or block.
create(name) ==
    /\ IF find_inode_id(name, root_dir) # {}
       THEN created' = {} /\ UNCHANGED <<root_dir, disk_inodes, free_data, read_buf>>
       ELSE LET new_inode_id == Len(disk_inodes) + 1
                alloc == dir_increase_size((Len(root_dir) + 1) * DIRENT_SZ, root_dir)
            IN  /\ Len(disk_inodes) < MaxInodes
                /\ alloc <= free_data
                /\ disk_inodes' = Append(disk_inodes, DiskInodeInitialize)
                /\ root_dir' = Append(root_dir, DirEntryNew(name, new_inode_id))
                /\ free_data' = free_data - alloc
                /\ created' = {new_inode_id}
                /\ UNCHANGED read_buf
    /\ UNCHANGED <<procvars, semvars, mutexvars, user_buf, lockvars, root_inode, mmvars, kernvars>>

\* Inode::write_at with lines 260 and 261 in the other order: it writes, then
\* grows the file
write_at_then_grow(id, offset, buf) ==
    LET w == DiskInodeWriteAt(disk_inodes[id], offset, buf)
        grown == increase_size(offset + Len(buf), w.inode)
    IN  /\ grown.alloc <= free_data
        /\ disk_inodes' = [disk_inodes EXCEPT ![id] = grown.inode]
        /\ free_data' = free_data - grown.alloc
        /\ retval' = w.written
        /\ UNCHANGED <<root_dir, read_buf, created>>
        /\ UNCHANGED <<trace_deadlock, task_status, pc, frame, semvars, mutexvars, user_buf, lockvars, root_inode, mmvars, kernvars>>

\* Inode::write_at on the file inode id; retval is the value it returns
write_at(id, offset, buf) ==
    LET grown == increase_size(offset + Len(buf), disk_inodes[id])
        w == DiskInodeWriteAt(grown.inode, offset, buf)
    IN  /\ grown.alloc <= free_data
        /\ disk_inodes' = [disk_inodes EXCEPT ![id] = w.inode]
        /\ free_data' = free_data - grown.alloc
        /\ retval' = w.written
        /\ UNCHANGED <<root_dir, read_buf, created>>
        /\ UNCHANGED <<trace_deadlock, task_status, pc, frame, semvars, mutexvars, user_buf, lockvars, root_inode, mmvars, kernvars>>

\* Inode::read_at on the file inode id into a buffer of len bytes that held
\* STALE in every byte; retval is the value it returns
read_at(id, offset, len) ==
    LET got == DiskInodeReadAt(disk_inodes[id], offset, len)
    IN  /\ read_buf' = got \o Fill(len - Len(got), STALE)
        /\ retval' = Len(got)
        /\ UNCHANGED <<root_dir, disk_inodes, free_data, created>>
        /\ UNCHANGED <<trace_deadlock, task_status, pc, frame, semvars, mutexvars, user_buf, lockvars, root_inode, mmvars, kernvars>>

\* Inode::clear on the file inode id
clear(id) ==
    LET c == clear_size(disk_inodes[id])
    IN  /\ disk_inodes' = [disk_inodes EXCEPT ![id] = c.inode]
        /\ free_data' = free_data + c.freed
        /\ UNCHANGED <<root_dir, read_buf, created>>
        /\ UNCHANGED <<procvars, semvars, mutexvars, user_buf, lockvars, root_inode, mmvars, kernvars>>

\* ROOT_INODE.hard_unlink(file) called with a handle: of a file inode (id >= 1)
\* or of the root directory itself (id 0); retval is 0 for Ok and -1 for Err
HardUnlink(file_id) ==
    LET inodes == [id \in 0 .. Len(disk_inodes) |->
                      IF id = 0 THEN root_inode ELSE disk_inodes[id]]
        r == hard_unlink(root_dir, inodes, file_id)
    IN  /\ root_dir' = r.dir
        /\ root_inode' = r.inodes[0]
        /\ disk_inodes' = [k \in 1 .. Len(disk_inodes) |-> r.inodes[k]]
        /\ free_data' = free_data + r.freed
        /\ retval' = (IF r.ok THEN 0 ELSE -1)
        /\ UNCHANGED <<read_buf, created>>
        /\ UNCHANGED <<trace_deadlock, task_status, pc, frame, semvars, mutexvars, user_buf, lockvars, mmvars, kernvars>>

\* Inode::hard_unlink called on the handle self_id of a file inode, with the
\* handle file_id: lines 194-196 return Err before anything is read or written
HardUnlinkOn(self_id, file_id) ==
    /\ IF ~is_dir(disk_inodes, self_id)
       THEN /\ retval' = -1
            /\ UNCHANGED <<root_dir, disk_inodes, free_data, root_inode>>
       ELSE LET r == hard_unlink(root_dir, disk_inodes, file_id)
            IN  /\ root_dir' = r.dir
                /\ disk_inodes' = r.inodes
                /\ free_data' = free_data + r.freed
                /\ retval' = (IF r.ok THEN 0 ELSE -1)
                /\ UNCHANGED root_inode
    /\ UNCHANGED <<read_buf, created>>
    /\ UNCHANGED <<trace_deadlock, task_status, pc, frame, semvars, mutexvars, user_buf, lockvars, mmvars, kernvars>>

\* sys_linkat
SysLinkat(old_name, new_name) ==
    LET r == link_file(root_dir, disk_inodes, old_name, new_name)
    IN  /\ r.alloc <= free_data
        /\ root_dir' = r.dir
        /\ disk_inodes' = r.inodes
        /\ free_data' = free_data - r.alloc
        /\ retval' = (IF r.ok THEN 0 ELSE -1)
        /\ UNCHANGED <<read_buf, created>>
        /\ UNCHANGED <<trace_deadlock, task_status, pc, frame, semvars, mutexvars, user_buf, lockvars, root_inode, mmvars, kernvars>>

\* sys_unlinkat
SysUnlinkat(name) ==
    LET r == unlink_file(root_dir, disk_inodes, name)
    IN  /\ root_dir' = r.dir
        /\ disk_inodes' = r.inodes
        /\ free_data' = free_data + r.freed
        /\ retval' = (IF r.ok THEN 0 ELSE -1)
        /\ UNCHANGED <<read_buf, created>>
        /\ UNCHANGED <<trace_deadlock, task_status, pc, frame, semvars, mutexvars, user_buf, lockvars, root_inode, mmvars, kernvars>>

\* ------------------------------------------------------------ user memory

\* virtual page numbers of the start addresses given to mmap and munmap
Vpns == 0 .. (NPages - 1)

\* MapPermission::from_bits: Some(bits) as {bits} when only R (2), W (4), X (8)
\* and U (16) are set, None as {}
MapPermissionFromBits(bits) ==
    IF bits % 2 = 0 /\ bits < 2 * PERM_U THEN {bits} ELSE {}

\* MemorySet::translate: Some(pte) as {pte}, None as {}
translate(mset, vpn) ==
    IF vpn \in DOMAIN mset.page_table THEN {mset.page_table[vpn]} ELSE {}

\* PageTableEntry::is_valid
is_valid(pte) == pte.valid

\* the frame the frame allocator hands out: the lowest one not in use
FrameAlloc(used) == CHOOSE f \in 1 .. (Cardinality(used) + 1) : f \notin used

\* frames in use by the page table pt
UsedFrames(pt) == {pt[v].ppn : v \in DOMAIN pt}

\* maps the pages l .. r - 1, none of which is mapped, to new frames
RECURSIVE MapPages(_, _, _, _)
MapPages(pt, l, r, perm) ==
    IF l >= r THEN pt
    ELSE MapPages([v \in DOMAIN pt \cup {l} |->
                      IF v = l THEN [valid |-> TRUE, ppn |-> FrameAlloc(UsedFrames(pt)),
                                     flags |-> perm]
                      ELSE pt[v]],
                  l + 1, r, perm)

\* MemorySet::insert_framed_area: a new framed area of the pages of
\* [start_va, end_va), each mapped to a new frame
insert_framed_area(mset, start_va, end_va, permission) ==
    LET l == start_va \div PAGE_SIZE
        r == end_va \div PAGE_SIZE
    IN  [areas      |-> Append(mset.areas, [l |-> l, r |-> r, perm |-> permission,
                                            user |-> TRUE]),
         page_table |-> MapPages(mset.page_table, l, r, permission)]

\* the areas left of an area when the pages b .. e - 1 are cut out of it
CutArea(a, b, e) ==
    IF a.l >= a.r \/ a.r <= b \/ e <= a.l THEN <<a>>
    ELSE (IF a.l < b THEN <<[a EXCEPT !.r = b]>> ELSE <<>>)
         \o (IF e < a.r THEN <<[a EXCEPT !.l = e]>> ELSE <<>>)

RECURSIVE CutAreas(_, _, _)
CutAreas(areas, b, e) ==
    IF areas = <<>> THEN <<>>
    ELSE CutArea(Head(areas), b, e) \o CutAreas(Tail(areas), b, e)

\* MemorySet::unmap_range: removes npages pages from pbegin on when each of
\* them lies in a framed area installed by mmap, and then returns true; else
\* changes nothing and returns false
unmap_range(mset, pbegin, npages) ==
    LET range == pbegin .. (pbegin + npages - 1)
        removable == \A v \in range :
                        \E k \in 1 .. Len(mset.areas) :
                            /\ mset.areas[k].user
                            /\ mset.areas[k].l <= v /\ v < mset.areas[k].r
    IN  IF removable
        THEN [ok   |-> TRUE,
              mset |-> [areas      |-> CutAreas(mset.areas, pbegin, pbegin + npages),
                        page_table |-> [v \in DOMAIN mset.page_table \ range |->
                                           mset.page_table[v]]]]
        ELSE [ok |-> FALSE, mset |-> mset]

\* the last call was not a do_mmap that returned 0 or the do_munmap that undoes it
NoSnap == [stage |-> "none"]

\* no copy is under way
NoCopy == [stage |-> "none"]

\* the memory set of a task after it was loaded: one page of program text,
\* readable and executable by the user, which is not an area installed by
\* mmap. Programs are linked above address 0, so the text is at page 1 and
\* page 0 is free.
from_elf ==
    [areas      |-> <<[l |-> 1, r |-> 2, perm |-> 2 + 8 + PERM_U, user |-> FALSE]>>,
     page_table |-> (1 :> [valid |-> TRUE, ppn |-> 1, flags |-> 2 + 8 + PERM_U])]

MmInit ==
    /\ memory_set = from_elf
    /\ mm_snap = NoSnap
    /\ copy = NoCopy

\* mmap_handle::page_aligned: (addr & 0x0000_0FFF) == 0
page_aligned(addr) == addr % PAGE_SIZE = 0

\* mmap_handle::uprot_to_permission without `| MapPermission::U`
uprot_to_permission_no_user(prot) ==
    IF prot >= 8 \/ prot % 8 = 0 THEN {}
    ELSE MapPermissionFromBits((prot * 2) % 256)

\* mmap_handle::uprot_to_permission: Some(permission) as {permission}, None as
\* {}; (prot << 1) as u8 is (prot * 2) % 256, and U is a bit that value has not
uprot_to_permission(prot) ==
    IF prot >= 8 \/ prot % 8 = 0 THEN {}
    ELSE {p + PERM_U : p \in MapPermissionFromBits((prot * 2) % 256)}

\* mmap_handle::_check_vaddr_if_mapped looking at the first page of the range only
check_first_page_if_mapped(mset, start, end) ==
    /\ start < end
    /\ \E pte \in translate(mset, start \div PAGE_SIZE) : is_valid(pte)

\* mmap_handle::_check_vaddr_if_mapped
check_vaddr_if_mapped(mset, start, end) ==
    \E vp \in (start \div PAGE_SIZE) .. ((end \div PAGE_SIZE) - 1) :
        \E pte \in translate(mset, vp) : is_valid(pte)

\* mmap_handle::make_page_aligned: (addr | 0x0000_0FFF) + 1 when not aligned
make_page_aligned(addr) ==
    IF page_aligned(addr) THEN addr
    ELSE (addr - (addr % PAGE_SIZE)) + (PAGE_SIZE - 1) + 1

\* mmap_handle::do_mmap on the memory set of the current task; retval is the
\* value it returns
do_mmap(start, len, prot) ==
    /\ IF ~page_aligned(start) THEN retval' = -1 /\ UNCHANGED memory_set
       ELSE IF uprot_to_permission(prot) = {} THEN retval' = -1 /\ UNCHANGED memory_set
       ELSE LET perm == CHOOSE p \in uprot_to_permission(prot) : TRUE
                alen == make_page_aligned(len)
            IN  IF check_vaddr_if_mapped(memory_set, start, start + alen)
                THEN retval' = -1 /\ UNCHANGED memory_set
                ELSE /\ memory_set' = insert_framed_area(memory_set, start, start + alen, perm)
                     /\ retval' = 0
    /\ mm_snap' = (IF retval' = 0
                   THEN [stage |-> "mapped", start |-> start, len |-> len,
                         before |-> memory_set.page_table]
                   ELSE [stage |-> "refused",
                         line  |-> IF ~page_aligned(start) THEN 112
                                   ELSE IF uprot_to_permission(prot) = {} THEN 119
                                   ELSE 130])
    /\ UNCHANGED <<trace_deadlock, task_status, pc, frame, semvars, mutexvars, fsvars, copy, kernvars>>

\* mmap_handle::do_munmap with npages taken from len, not from the rounded plen
do_munmap_unrounded(start, len) ==
    /\ IF ~page_aligned(start) THEN retval' = -1 /\ UNCHANGED memory_set
       ELSE LET npages == len \div PAGE_SIZE
                pbegin == start \div PAGE_SIZE
                u == unmap_range(memory_set, pbegin, npages)
            IN  /\ memory_set' = u.mset
                /\ retval' = (IF u.ok THEN 0 ELSE -1)
    /\ mm_snap' = (IF mm_snap.stage = "mapped" /\ mm_snap.start = start /\ mm_snap.len = len
                   THEN [stage |-> "unmapped", start |-> start, len |-> len,
                         before |-> mm_snap.before]
                   ELSE NoSnap)
    /\ UNCHANGED <<trace_deadlock, task_status, pc, frame, semvars, mutexvars, fsvars, copy, kernvars>>

\* mmap_handle::do_munmap on the memory set of the current task
do_munmap(start, len) ==
    /\ IF ~page_aligned(start) THEN retval' = -1 /\ UNCHANGED memory_set
       ELSE LET plen == make_page_aligned(len)
                npages == plen \div PAGE_SIZE
                pbegin == start \div PAGE_SIZE
                u == unmap_range(memory_set, pbegin, npages)
            IN  /\ memory_set' = u.mset
                /\ retval' = (IF u.ok THEN 0 ELSE -1)
    /\ mm_snap' = (IF mm_snap.stage = "mapped" /\ mm_snap.start = start /\ mm_snap.len = len
                   THEN [stage |-> "unmapped", start |-> start, len |-> len,
                         before |-> mm_snap.before]
                   ELSE NoSnap)
    /\ UNCHANGED <<trace_deadlock, task_status, pc, frame, semvars, mutexvars, fsvars, copy, kernvars>>

\* ------------------------------------------------ kernel <-> user copies
\* user addresses a copy may touch; address 0 is the null pointer
UserAddrs == 0 .. MaxCopyLen + 2

RECURSIVE SliceSum(_, _)
SliceSum(split, n) == IF n = 0 THEN 0 ELSE split[n] + SliceSum(split, n - 1)

\* mm::translated_byte_buffer(token, ptr, len) of a mapped range: consecutive
\* physical slices that cover [ptr, ptr + len), split where pages end
translated_byte_buffer(ptr, split) ==
    [i \in 1 .. Len(split) |->
        [addr |-> ptr + SliceSum(split, i - 1), len |-> split[i]]]

\* the loop of copy_to_user without `kbegin += phys.len()`
RECURSIVE copy_to_user_loop_no_advance(_, _, _, _, _, _)
copy_to_user_loop_no_advance(mapped_range, i, kbegin, ksafe_end, kernel_src, user) ==
    IF i > Len(mapped_range) THEN [panic |-> FALSE, user |-> user]
    ELSE LET phys == mapped_range[i]
             kend == Min(ksafe_end, kbegin + phys.len)
         IN  IF kbegin > kend \/ phys.len # kend - kbegin
             THEN [panic |-> TRUE, user |-> user]
             ELSE LET written ==
                          [a \in DOMAIN user |->
                              IF a >= phys.addr /\ a < phys.addr + phys.len
                              THEN kernel_src[kbegin + (a - phys.addr) + 1]
                              ELSE user[a]]
                  IN  IF kend >= ksafe_end
                      THEN [panic |-> FALSE, user |-> written]
                      ELSE copy_to_user_loop_no_advance(mapped_range, i + 1, kbegin,
                                                        ksafe_end, kernel_src, written)

\* the loop of copy_to_user over the slices from the i-th on:
\*   let kend = ksafe_end.min(kbegin + phys.len());
\*   phys.copy_from_slice(&kernel_src[kbegin..kend]);  panics unless the lengths agree
\*   if kend >= ksafe_end { break; }
\*   kbegin += phys.len();
RECURSIVE copy_to_user_loop(_, _, _, _, _, _)
copy_to_user_loop(mapped_range, i, kbegin, ksafe_end, kernel_src, user) ==
    IF i > Len(mapped_range) THEN [panic |-> FALSE, user |-> user]
    ELSE LET phys == mapped_range[i]
             kend == Min(ksafe_end, kbegin + phys.len)
         IN  IF kbegin > kend \/ phys.len # kend - kbegin
             THEN [panic |-> TRUE, user |-> user]
             ELSE LET written ==
                          [a \in DOMAIN user |->
                              IF a >= phys.addr /\ a < phys.addr + phys.len
                              THEN kernel_src[kbegin + (a - phys.addr) + 1]
                              ELSE user[a]]
                  IN  IF kend >= ksafe_end
                      THEN [panic |-> FALSE, user |-> written]
                      ELSE copy_to_user_loop(mapped_range, i + 1, kbegin + phys.len,
                                             ksafe_end, kernel_src, written)

\* the loop of copy_from_user over the slices from the i-th on:
\*   let kend = kbegin + plen;
\*   kernel_src[kbegin..kend].copy_from_slice(phys);   panics when kend > kernel_src.len()
\*   kbegin = kend;
RECURSIVE copy_from_user_loop(_, _, _, _, _)
copy_from_user_loop(mapped_range, i, kbegin, kernel_src, user) ==
    IF i > Len(mapped_range) THEN [panic |-> FALSE, kernel |-> kernel_src]
    ELSE LET phys == mapped_range[i]
             kend == kbegin + phys.len
         IN  IF kend > Len(kernel_src)
             THEN [panic |-> TRUE, kernel |-> kernel_src]
             ELSE copy_from_user_loop(mapped_range, i + 1, kend,
                     [k \in 1 .. Len(kernel_src) |->
                         IF k > kbegin /\ k <= kend
                         THEN user[phys.addr + (k - kbegin - 1)]
                         ELSE kernel_src[k]],
                     user)

\* copy_to_user(user_dst, len, kernel_src) on the user range the copy is about
copy_to_user(user_dst, len, kernel_src) ==
    /\ copy.stage = "ready"
    /\ IF user_dst = 0
       THEN copy' = [copy EXCEPT !.stage = "panic", !.line = 40]
       ELSE LET mapped_range == translated_byte_buffer(user_dst, copy.split)
                ksafe_end == Min(Len(kernel_src), len)
                done == copy_to_user_loop(mapped_range, 1, 0, ksafe_end, kernel_src, copy.user)
            IN  copy' = IF done.panic
                        THEN [copy EXCEPT !.stage = "panic", !.line = 47, !.user = done.user]
                        ELSE [copy EXCEPT !.stage = "to_user", !.user = done.user]
    /\ UNCHANGED <<procvars, semvars, mutexvars, fsvars, memory_set, mm_snap, kernvars>>

\* copy_from_user(kernel_src, user_src, len) on the user range the copy is about
copy_from_user(kernel_src, user_src, len) ==
    /\ copy.stage = "to_user"
    /\ IF Len(kernel_src) < len
       THEN copy' = [copy EXCEPT !.stage = "panic", !.line = 10]
       ELSE IF user_src = 0
       THEN copy' = [copy EXCEPT !.stage = "panic", !.line = 11]
       ELSE LET mapped_range == translated_byte_buffer(user_src, copy.split)
                done == copy_from_user_loop(mapped_range, 1, 0, kernel_src, copy.user)
            IN  copy' = IF done.panic
                        THEN [copy EXCEPT !.stage = "panic", !.line = 18, !.dst = done.kernel]
                        ELSE [copy EXCEPT !.stage = "from_user", !.dst = done.kernel]
    /\ UNCHANGED <<procvars, semvars, mutexvars, fsvars, memory_set, mm_snap, kernvars>>

\* ------------------------------------------------------------------ mailbox
\* RingBuffer::empty
RingBufferEmpty ==
    [data_ |-> [k \in 0 .. (MAX_RINGBUF_SIZE - 1) |-> 0], head_ |-> 0, tail_ |-> 0]

\* RingBuffer::length
length(r) ==
    IF r.head_ < r.tail_ THEN r.head_ + MAX_RINGBUF_SIZE - r.tail_
    ELSE r.head_ - r.tail_

\* RingBuffer::is_full:
\*   self.tail_ - self.head_ == 1 || self.tail_ + MAX_RINGBUF_SIZE - self.head_ == 1
\* on usize. When tail_ < head_ the first subtraction goes below 0: a build
\* with overflow checks panics there, any other build wraps to a value that is
\* not 1 and evaluates the second comparison.
is_full(r, checks) ==
    IF r.tail_ < r.head_
    THEN IF checks THEN [panic |-> TRUE, full |-> FALSE]
         ELSE [panic |-> FALSE, full |-> (r.tail_ + MAX_RINGBUF_SIZE - r.head_ = 1)]
    ELSE [panic |-> FALSE,
          full  |-> (r.tail_ - r.head_ = 1 \/ r.tail_ + MAX_RINGBUF_SIZE - r.head_ = 1)]

\* RingBuffer::is_empty
is_empty(r) == r.tail_ = r.head_

\* RingBuffer::append_u8; stored tells whether line 88 wrote the byte
append_u8(r, c, checks) ==
    LET first == is_full(r, checks)
    IN  IF first.panic THEN [ring |-> r, status |-> "panic", stored |-> FALSE]
        ELSE IF first.full THEN [ring |-> r, status |-> "Full", stored |-> FALSE]
        ELSE LET written == [r EXCEPT !.data_[r.head_] = c,
                                      !.head_ = IF r.head_ = MAX_RINGBUF_SIZE - 1
                                                THEN 0 ELSE r.head_ + 1]
                 second == is_full(written, checks)
             IN  [ring   |-> written,
                  status |-> IF second.panic THEN "panic"
                             ELSE IF second.full THEN "Full" ELSE "Normal",
                  stored |-> TRUE]

\* pop_front that hands out the byte at tail_ and leaves tail_ where it is
pop_front_keep_tail(r) ==
    IF is_empty(r) THEN [ring |-> r, ret |-> {}]
    ELSE [ring |-> r, ret |-> {r.data_[r.tail_]}]

\* RingBuffer::pop_front: Some(byte) as {byte}, None as {}
pop_front(r) ==
    IF is_empty(r) THEN [ring |-> r, ret |-> {}]
    ELSE [ring |-> [r EXCEPT !.tail_ = IF r.tail_ = MAX_RINGBUF_SIZE - 1
                                        THEN 0 ELSE r.tail_ + 1],
          ret  |-> {r.data_[r.tail_]}]

\* the ring after j bytes were stored by line 88 and head_ advanced by line 89
Advanced(r, j) == [r EXCEPT !.head_ = (r.head_ + j) % MAX_RINGBUF_SIZE]

\* the ring after j bytes were taken by line 102 and tail_ advanced by line 103
Retired(r, j) == [r EXCEPT !.tail_ = (r.tail_ + j) % MAX_RINGBUF_SIZE]

\* the least number of a non-empty set of numbers
Least(S) == CHOOSE i \in S : \A j \in S : i <= j

\* The loop of push_bytes. Turn i calls append_u8 on the ring that holds i - 1
\* bytes of the slice: is_full of that ring was evaluated at the end of turn
\* i - 1 (at line 85 for the first turn), the byte is stored, and is_full is
\* evaluated again at line 90. The loop leaves at the first ring on which is_full
\* answers true or panics: before anything is stored when that is the ring given,
\* else in the turn that stored the byte, which line 115 does not count.
push_bytes_loop(r, bytes, checks) ==
    LET stops == {i \in 0 .. Len(bytes) :
                     LET f == is_full(Advanced(r, i), checks) IN f.panic \/ f.full}
        nstored == IF stops = {} THEN Len(bytes) ELSE Least(stops)
    IN  [ring   |-> [data_ |-> [a \in 0 .. (MAX_RINGBUF_SIZE - 1) |->
                                   LET j == (a + MAX_RINGBUF_SIZE - r.head_) % MAX_RINGBUF_SIZE
                                   IN  IF j < nstored THEN bytes[j + 1] ELSE r.data_[a]],
                     head_ |-> Advanced(r, nstored).head_,
                     tail_ |-> r.tail_],
         ret    |-> IF stops = {} THEN Len(bytes)
                    ELSE IF nstored = 0 THEN 0 ELSE nstored - 1,
         stored |-> SubSeq(bytes, 1, nstored),
         panic  |-> stops # {} /\ is_full(Advanced(r, nstored), checks).panic]

\* The loop of pop_bytes over a buffer of len bytes. Turn i calls pop_front on
\* the ring that gave i - 1 bytes; the loop leaves at the first such ring that
\* is empty, or when the buffer is full.
pop_bytes_loop(r, len) ==
    LET stops == {i \in 0 .. len : is_empty(Retired(r, i))}
        npoped == IF stops = {} THEN len ELSE Least(stops)
    IN  [ring |-> Retired(r, npoped),
         ret  |-> npoped,
         out  |-> [i \in 1 .. npoped |-> r.data_[Retired(r, i - 1).tail_]]]

\* the first n elements of a sequence dropped
DropFirst(q, n) == SubSeq(q, n + 1, Len(q))

\* RingBuffer::append_u8(c) as a call of its own
AppendU8(c) ==
    /\ ring_log.op # "panic"
    /\ ring_log.n < MaxRingOps
    /\ LET done == append_u8(ring, c, ring_log.checks)
       IN  /\ ring' = done.ring
           /\ ring_log' = [ring_log EXCEPT
                 !.op = IF done.status = "panic" THEN "panic" ELSE "append_u8",
                 !.bytes = <<c>>,
                 !.ret = IF done.status = "Normal" THEN 1 ELSE 0,
                 !.before_len = length(ring),
                 !.before_fifo = ring_log.fifo,
                 !.fifo = IF done.stored THEN Append(ring_log.fifo, c) ELSE ring_log.fifo,
                 !.out = <<>>,
                 !.n = ring_log.n + 1]
    /\ UNCHANGED <<procvars, semvars, mutexvars, fsvars, mmvars, taskvars>>

\* RingBuffer::push_bytes(bytes)
push_bytes(bytes) ==
    /\ ring_log.op # "panic"
    /\ ring_log.n < MaxRingOps
    /\ LET done == push_bytes_loop(ring, bytes, ring_log.checks)
       IN  /\ ring' = done.ring
           /\ ring_log' = [ring_log EXCEPT
                 !.op = IF done.panic THEN "panic" ELSE "push_bytes",
                 !.bytes = bytes,
                 !.ret = done.ret,
                 !.before_len = length(ring),
                 !.before_fifo = ring_log.fifo,
                 !.fifo = ring_log.fifo \o done.stored,
                 !.out = <<>>,
                 !.n = ring_log.n + 1]
    /\ UNCHANGED <<procvars, semvars, mutexvars, fsvars, mmvars, taskvars>>

\* RingBuffer::pop_bytes(bytes) on a buffer of len bytes
pop_bytes(len) ==
    /\ ring_log.op # "panic"
    /\ ring_log.n < MaxRingOps
    /\ LET done == pop_bytes_loop(ring, len)
       IN  /\ ring' = done.ring
           /\ ring_log' = [ring_log EXCEPT
                 !.op = "pop_bytes",
                 !.bytes = Fill(len, STALE),
                 !.ret = done.ret,
                 !.before_len = length(ring),
                 !.before_fifo = ring_log.fifo,
                 !.fifo = DropFirst(ring_log.fifo, done.ret),
                 !.out = done.out,
                 !.n = ring_log.n + 1]
    /\ UNCHANGED <<procvars, semvars, mutexvars, fsvars, mmvars, taskvars>>

\* RingBuffer::pop_nbytes(nbytes): a vector of length().min(nbytes) bytes is
\* made and handed to pop_bytes
pop_nbytes(nbytes) ==
    /\ ring_log.op # "panic"
    /\ ring_log.n < MaxRingOps
    /\ LET len == Min(length(ring), nbytes)
           done == pop_bytes_loop(ring, len)
       IN  /\ ring' = done.ring
           /\ ring_log' = [ring_log EXCEPT
                 !.op = "pop_nbytes",
                 !.bytes = Fill(len, 0),
                 !.ret = done.ret,
                 !.before_len = length(ring),
                 !.before_fifo = ring_log.fifo,
                 !.fifo = DropFirst(ring_log.fifo, done.ret),
                 !.out = done.out,
                 !.n = ring_log.n + 1]
    /\ UNCHANGED <<procvars, semvars, mutexvars, fsvars, mmvars, taskvars>>

\* RingBuffer::pop_front as a call of its own
PopFront ==
    /\ ring_log.op # "panic"
    /\ ring_log.n < MaxRingOps
    /\ LET done == pop_front(ring)
       IN  /\ ring' = done.ring
           /\ ring_log' = [ring_log EXCEPT
                 !.op = "pop_front",
                 !.bytes = <<>>,
                 !.ret = Cardinality(done.ret),
                 !.before_len = length(ring),
                 !.before_fifo = ring_log.fifo,
                 !.fifo = DropFirst(ring_log.fifo, Cardinality(done.ret)),
                 !.out = IF done.ret = {} THEN <<>> ELSE <<CHOOSE ch \in done.ret : TRUE>>,
                 !.n = ring_log.n + 1]
    /\ UNCHANGED <<procvars, semvars, mutexvars, fsvars, mmvars, taskvars>>

\* MailBox::new in a build with or without overflow checks
RingInit(checks) ==
    /\ ring = RingBufferEmpty
    /\ ring_log = [checks |-> checks, op |-> "none", bytes |-> <<>>, ret |-> 0,
                   before_len |-> 0, before_fifo |-> <<>>, fifo |-> <<>>, out |-> <<>>,
                   n |-> 0]

MailInit == RingInit(FALSE)

\* -------------------------------------------------------------------- tasks
Pids == 0 .. (NTasks - 1)

\* no task: PROCESSOR.current is None, or a parent that is None
NoTask == 0 - 1

\* the user stack top MemorySet::from_elf returns, where the heap starts
USER_SP == 3 * PAGE_SIZE

\* SchedInfo::new
SchedInfoNew ==
    [_priority |-> DEFAULT_PRIORITY, _pass |-> DEFAULT_PASS, _stride |-> 0]

\* SchedInfo::clone_from
SchedInfoCloneFrom(old_sched_info) ==
    [_priority |-> old_sched_info._priority, _pass |-> old_sched_info._pass, _stride |-> 0]

\* SchedInfo::set_priority
SchedInfoSetPriority(info, priority) ==
    [info EXCEPT !._priority = priority,
                 !._pass = IF priority = DEFAULT_PRIORITY THEN DEFAULT_PASS
                           ELSE DEFAULT_BIG_STRIDE \div priority]

\* SchedInfo::update that advances the stride by BIG_STRIDE per tick, whatever
\* the priority
SchedInfoUpdateNoPriority(info, dtime) ==
    [info EXCEPT !._stride = @ + DEFAULT_BIG_STRIDE * dtime]

\* SchedInfo::update
SchedInfoUpdate(info, dtime) ==
    [info EXCEPT !._stride = @ + info._pass * dtime]

\* TcbStatistics::empty
TcbStatisticsEmpty ==
    [startup_time |-> 0, last_activate_time |-> 0, last_deactivate_time |-> 0]

\* TcbStatistics::get_last_run_time
get_last_run_time(statistics) ==
    statistics.last_deactivate_time - statistics.last_activate_time

\* a pid no process was given yet
UnInitTcb ==
    [task_status |-> "UnInit", parent |-> NoTask, children |-> <<>>, exit_code |-> 0,
     heap_bottom |-> 0, program_brk |-> 0, recycled |-> FALSE,
     statistics |-> TcbStatisticsEmpty, sched_info |-> SchedInfoNew]

\* TaskControlBlock::new
TaskControlBlockNew ==
    [task_status |-> "Ready", parent |-> NoTask, children |-> <<>>, exit_code |-> 0,
     heap_bottom |-> USER_SP, program_brk |-> USER_SP, recycled |-> FALSE,
     statistics |-> TcbStatisticsEmpty, sched_info |-> SchedInfoNew]

\* TaskControlBlockInner::on_activate at time t
inner_on_activate(tcb, t) ==
    [tcb EXCEPT !.task_status = "Running",
                !.statistics.startup_time = IF @ = 0 THEN t ELSE @,
                !.statistics.last_activate_time = t]

\* TaskControlBlockInner::on_deactivate at time t
inner_on_deactivate(tcb, t) ==
    LET stopped == [tcb EXCEPT !.statistics.last_deactivate_time = t]
    IN  [stopped EXCEPT !.sched_info =
            SchedInfoUpdate(@, get_last_run_time(stopped.statistics))]

\* TaskControlBlock::on_deactivate that leaves task_status as it is
on_deactivate_keep_status(tcb, new_status, t) == inner_on_deactivate(tcb, t)

\* TaskControlBlock::on_deactivate(new_status) at time t
on_deactivate(tcb, new_status, t) ==
    inner_on_deactivate([tcb EXCEPT !.task_status = new_status], t)

\* TaskControlBlockInner::on_dead that does not deactivate
on_dead_no_update(tcb, new_status, exit_code, t) ==
    [tcb EXCEPT !.task_status = new_status, !.exit_code = exit_code]

\* TaskControlBlockInner::on_dead that does not record the exit code
on_dead_no_exit_code(tcb, new_status, exit_code, t) ==
    [inner_on_deactivate(tcb, t) EXCEPT !.task_status = new_status]

\* TaskControlBlockInner::on_dead at time t
on_dead(tcb, new_status, exit_code, t) ==
    [inner_on_deactivate(tcb, t) EXCEPT !.task_status = new_status,
                                        !.exit_code = exit_code]

\* TaskControlBlock::into_stride
into_stride(tasks, pid) == [stride |-> tasks[pid].sched_info._stride, pid |-> pid]

\* Ord for Stride in the numeric order of the stride value
StrideCmpNumeric(self, other) ==
    IF self.stride < other.stride THEN "Less"
    ELSE IF self.stride = other.stride THEN "Equal"
    ELSE "Greater"

\* Ord::cmp for Stride: match self.0.cmp(&other.0) { Less => Greater, ... }
StrideCmp(self, other) ==
    IF self.stride < other.stride THEN "Greater"
    ELSE IF self.stride = other.stride THEN "Equal"
    ELSE "Less"

\* the elements the ready queue can pop: the greatest ones in the order of Stride
Greatest(queue) == {e \in queue : \A o \in queue : StrideCmp(e, o) # "Less"}

\* the greatest difference of the strides of two runnable tasks
StrideGap(tasks) ==
    LET runnable == {q \in Pids : tasks[q].task_status \in {"Ready", "Running"}}
    IN  IF runnable = {} THEN 0
        ELSE CHOOSE d \in {tasks[a].sched_info._stride - tasks[b].sched_info._stride :
                               a \in runnable, b \in runnable} :
                 \A a \in runnable, b \in runnable :
                     tasks[a].sched_info._stride - tasks[b].sched_info._stride <= d

\* what an operation records of itself in sched_log: its name and the pid it
\* is about; the fields other operations filled are cleared, gap0 is kept
LogEntry(op, pid) ==
    [op |-> op, pid |-> pid, pick |-> {}, from |-> {}, exit_code |-> 0, moved |-> <<>>,
     gap0 |-> sched_log.gap0, dtime |-> 0, size |-> 0, old_break |-> 0,
     resized |-> FALSE]

\* schedule(): the idle control flow takes the next task off the ready queue
\* (fetch_task pops the greatest Stride), activates it and makes it current;
\* with an empty queue the processor stays idle. t is the time the timer shows,
\* entry is what the caller records of itself.
RunNext(tasks, queue, entry, t) ==
    IF queue = {}
    THEN /\ tcbs' = tasks
         /\ ready_queue' = queue
         /\ current' = NoTask
         /\ sched_log' = [entry EXCEPT !.pick = {}, !.from = queue]
    ELSE \E e \in Greatest(queue) :
            /\ tcbs' = [tasks EXCEPT ![e.pid] = inner_on_activate(@, t)]
            /\ ready_queue' = queue \ {e}
            /\ current' = e.pid
            /\ sched_log' = [entry EXCEPT !.pick = {e}, !.from = queue]

\* run_tasks: the idle control flow finds no current task and fetches one;
\* a kernel that panicked runs nothing any more
run_tasks ==
    /\ current = NoTask
    /\ sched_log.op # "panic"
    /\ ready_queue # {}
    /\ RunNext(tcbs, ready_queue, LogEntry("run_tasks", NoTask), now)
    /\ UNCHANGED <<procvars, semvars, mutexvars, fsvars, mmvars, mailvars, now>>

\* timer::get_time() when the current task, activated at the time `now`, is
\* deactivated after it ran dtime ticks; the timer interrupt ends a slice
\* after MaxSlice ticks
Ticks == 0 .. MaxSlice

\* suspend_current_and_run_next, dtime ticks after the task was activated
suspend_current_and_run_next(dtime) ==
    /\ current # NoTask
    /\ now + dtime <= MaxTime
    /\ now' = now + dtime
    /\ LET task == current
           deactivated == [tcbs EXCEPT ![task] = on_deactivate(@, "Ready", now')]
       IN  RunNext(deactivated, ready_queue \cup {into_stride(deactivated, task)},
                   [LogEntry("suspend", task) EXCEPT !.dtime = dtime], now')
    /\ UNCHANGED <<procvars, semvars, mutexvars, fsvars, mmvars, mailvars>>

\* exit_current_and_run_next(exit_code), dtime ticks after the task was
\* activated; the exit of the init process panics
exit_current_and_run_next(exit_code, dtime) ==
    /\ current # NoTask
    /\ now + dtime <= MaxTime
    /\ now' = now + dtime
    /\ LET task == current
       IN  IF task = IDLE_PID
           THEN /\ sched_log' = LogEntry("panic", task)
                /\ current' = NoTask
                /\ UNCHANGED <<tcbs, ready_queue>>
           ELSE LET dead == [tcbs EXCEPT ![task] = on_dead(@, "Zombie", exit_code, now')]
                    moved == dead[task].children
                    adopted == [q \in Pids |->
                                  IF \E k \in 1 .. Len(moved) : moved[k] = q
                                  THEN [dead[q] EXCEPT !.parent = IDLE_PID]
                                  ELSE dead[q]]
                    done == [adopted EXCEPT
                               ![IDLE_PID].children = @ \o moved,
                               ![task].children = <<>>,
                               ![task].recycled = TRUE]
                IN  RunNext(done, ready_queue,
                            [LogEntry("exit", task) EXCEPT !.exit_code = exit_code,
                                                           !.moved = moved,
                                                           !.dtime = dtime],
                            now')
    /\ UNCHANGED <<procvars, semvars, mutexvars, fsvars, mmvars, mailvars>>

\* pid_alloc: the lowest pid not in use; {} when all pids of the model are taken
pid_alloc == LET free == {q \in Pids : tcbs[q].task_status = "UnInit"}
             IN  IF free = {} THEN {} ELSE {Least(free)}

\* sys_fork: TaskControlBlock::fork of the current task, then add_task(child)
sys_fork ==
    /\ current # NoTask
    /\ sched_log.op # "panic"
    /\ \E pid \in pid_alloc :
          LET parent_inner == tcbs[current]
              child == [task_status |-> "Ready", parent |-> current, children |-> <<>>,
                        exit_code |-> 0,
                        heap_bottom |-> parent_inner.heap_bottom,
                        program_brk |-> parent_inner.program_brk,
                        recycled |-> FALSE,
                        statistics |-> TcbStatisticsEmpty,
                        sched_info |-> SchedInfoCloneFrom(parent_inner.sched_info)]
              forked == [tcbs EXCEPT ![pid] = child,
                                     ![current].children = Append(@, pid)]
          IN  /\ tcbs' = forked
              /\ ready_queue' = ready_queue \cup {into_stride(forked, pid)}
              /\ sched_log' = [LogEntry("fork", pid) EXCEPT !.gap0 = StrideGap(forked)]
    /\ UNCHANGED <<procvars, semvars, mutexvars, fsvars, mmvars, mailvars, now, current>>

\* sys_spawn: TaskControlBlock::spawn of the current task, then add_task(child)
sys_spawn ==
    /\ current # NoTask
    /\ sched_log.op # "panic"
    /\ \E pid \in pid_alloc :
          LET spawned == [tcbs EXCEPT ![pid] = [TaskControlBlockNew EXCEPT !.parent = current],
                                      ![current].children = Append(@, pid)]
          IN  /\ tcbs' = spawned
              /\ ready_queue' = ready_queue \cup {into_stride(spawned, pid)}
              /\ sched_log' = [LogEntry("spawn", pid) EXCEPT !.gap0 = StrideGap(spawned)]
    /\ UNCHANGED <<procvars, semvars, mutexvars, fsvars, mmvars, mailvars, now, current>>

\* sys_exec: TaskControlBlock::exec of the current task
sys_exec ==
    /\ current # NoTask
    /\ sched_log.op # "panic"
    /\ LET execed == [tcbs EXCEPT ![current].statistics.startup_time = 0,
                                  ![current].sched_info = SchedInfoNew]
       IN  /\ tcbs' = execed
           /\ sched_log' = [LogEntry("exec", current) EXCEPT !.gap0 = StrideGap(execed)]
    /\ UNCHANGED <<procvars, semvars, mutexvars, fsvars, mmvars, mailvars, now,
                   ready_queue, current>>

\* sys_set_priority(prio) of the current task; a priority below 2 is refused
sys_set_priority(prio) ==
    /\ current # NoTask
    /\ sched_log.op # "panic"
    /\ IF prio < 2 THEN UNCHANGED tcbs
       ELSE tcbs' = [tcbs EXCEPT ![current].sched_info = SchedInfoSetPriority(@, prio)]
    /\ sched_log' = LogEntry("set_priority", current)
    /\ UNCHANGED <<procvars, semvars, mutexvars, fsvars, mmvars, mailvars, now,
                   ready_queue, current>>

\* change_program_brk without the test of new_brk against heap_bottom
change_program_brk_unchecked(size, resized) ==
    /\ current # NoTask
    /\ sched_log.op # "panic"
    /\ LET inner == tcbs[current]
           heap_bottom == inner.heap_bottom
           old_break == inner.program_brk
           new_brk == inner.program_brk + size
       IN  /\ new_brk <= heap_bottom + MaxHeapPages * (PAGE_SIZE + 1)
           /\ IF resized
              THEN /\ tcbs' = [tcbs EXCEPT ![current].program_brk = new_brk]
                   /\ retval' = old_break
              ELSE /\ UNCHANGED tcbs
                   /\ retval' = 0 - 1
           /\ sched_log' = [LogEntry("sbrk", current) EXCEPT !.size = size,
                                                           !.old_break = old_break,
                                                           !.resized = resized]
    /\ UNCHANGED <<trace_deadlock, task_status, pc, frame, semvars, mutexvars, fsvars,
                   mmvars, mailvars, now, ready_queue, current>>

\* TaskControlBlock::change_program_brk(size) of the current task, called by
\* sys_sbrk; resized is the result of MemorySet::shrink_to or append_to.
\* retval is what sys_sbrk returns.
change_program_brk(size, resized) ==
    /\ current # NoTask
    /\ sched_log.op # "panic"
    /\ LET inner == tcbs[current]
           heap_bottom == inner.heap_bottom
           old_break == inner.program_brk
           new_brk == inner.program_brk + size
       IN  /\ new_brk <= heap_bottom + MaxHeapPages * (PAGE_SIZE + 1)
           /\ IF new_brk < heap_bottom
              THEN /\ UNCHANGED tcbs
                   /\ retval' = 0 - 1
              ELSE IF resized
              THEN /\ tcbs' = [tcbs EXCEPT ![current].program_brk = new_brk]
                   /\ retval' = old_break
              ELSE /\ UNCHANGED tcbs
                   /\ retval' = 0 - 1
           /\ sched_log' = [LogEntry("sbrk", current) EXCEPT !.size = size,
                                                           !.old_break = old_break,
                                                           !.resized = resized]
    /\ UNCHANGED <<trace_deadlock, task_status, pc, frame, semvars, mutexvars, fsvars,
                   mmvars, mailvars, now, ready_queue, current>>

\* the kernel after add_initproc: the init process is on the ready queue
TaskInit ==
    /\ tcbs = [q \in Pids |-> IF q = IDLE_PID THEN TaskControlBlockNew ELSE UnInitTcb]
    /\ ready_queue = {[stride |-> 0, pid |-> IDLE_PID]}
    /\ current = NoTask
    /\ now = 0
    /\ sched_log = [op |-> "none", pid |-> NoTask, pick |-> {}, from |-> {},
                    exit_code |-> 0, moved |-> <<>>, gap0 |-> 0, dtime |-> 0,
                    size |-> 0, old_break |-> 0, resized |-> FALSE]

KernInit == MailInit /\ TaskInit

\* ---------------------------------------------------------- specifications

vars == <<procvars, semvars, mutexvars, fsvars, mmvars, kernvars>>

Init == ProcInit /\ SemInit /\ MutexInit /\ FsInit /\ MmInit /\ KernInit

\* A process that uses semaphores.
Next ==
    \/ \E t \in Tids, e \in {0, 1} : SysEnableDeadlockDetect(t, e)
    \/ \E t \in Tids, c \in 0 .. MaxResCount :
          Len(semaphore_list) < NSyncSems /\ SysSemaphoreCreate(t, c)
    \/ \E t \in Tids, s \in SemIds : SysSemaphoreUp(t, s)
    \/ \E t \in Tids, s \in SemIds : SysSemaphoreDown(t, s)
    \/ \E t \in Tids : SysSemaphoreDownResume(t)
    \/ \E t \in Tids : ThreadExit(t)

Spec == Init /\ [][Next]_vars

\* A process that enables deadlock detection before it uses semaphores and
\* leaves it enabled; its threads only create, down and up semaphores.
TracedNext ==
    \/ \E t \in Tids : SysEnableDeadlockDetect(t, 1)
    \/ \E t \in Tids, c \in 0 .. MaxResCount : trace_deadlock /\ SysSemaphoreCreate(t, c)
    \/ \E t \in Tids, s \in SemIds : trace_deadlock /\ SysSemaphoreUp(t, s)
    \/ \E t \in Tids, s \in SemIds : trace_deadlock /\ SysSemaphoreDown(t, s)
    \/ \E t \in Tids : trace_deadlock /\ SysSemaphoreDownResume(t)

TracedSpec == Init /\ [][TracedNext]_vars

\* A process that uses mutexes.
MutexNext ==
    \/ \E t \in Tids, e \in {0, 1} : SysEnableDeadlockDetect(t, e)
    \/ \E t \in Tids, b \in BOOLEAN : SysMutexCreate(t, b)
    \/ \E t \in Tids, m \in 0 .. (NMutexes - 1) : SysMutexLock(t, m)
    \/ \E t \in Tids : MutexSpinRetry(t)
    \/ \E t \in Tids : SysMutexLockResume(t)
    \/ \E t \in Tids, m \in 0 .. (NMutexes - 1) : SysMutexUnlock(t, m)

MutexSpec == Init /\ [][MutexNext]_vars

\* A process that uses mutexes under a scheduler that runs every thread on its
\* ready queue: a woken thread is Ready and is run again, where it returns from
\* lock.
MutexLiveSpec ==
    /\ Init
    /\ [][MutexNext]_vars
    /\ \A t \in Tids : WF_vars(SysMutexLockResume(t))

\* A process that uses mutexes and up to NSyncSems semaphores.
SyncNext ==
    \/ \E t \in Tids, e \in {0, 1} : SysEnableDeadlockDetect(t, e)
    \/ \E t \in Tids, c \in 0 .. MaxResCount :
          Len(semaphore_list) < NSyncSems /\ SysSemaphoreCreate(t, c)
    \/ \E t \in Tids, s \in SemIds : SysSemaphoreUp(t, s)
    \/ \E t \in Tids, s \in SemIds : SysSemaphoreDown(t, s)
    \/ \E t \in Tids : SysSemaphoreDownResume(t)
    \/ \E t \in Tids, b \in BOOLEAN : SysMutexCreate(t, b)
    \/ \E t \in Tids, m \in 0 .. (NMutexes - 1) : SysMutexLock(t, m)
    \/ \E t \in Tids : MutexSpinRetry(t)
    \/ \E t \in Tids : SysMutexLockResume(t)
    \/ \E t \in Tids, m \in 0 .. (NMutexes - 1) : SysMutexUnlock(t, m)

SyncSpec == Init /\ [][SyncNext]_vars

\* The root directory under create, link and unlink, and its files under
\* one-byte writes at offset 0 and clear, through any handle find or create
\* has returned.
FsNext ==
    \/ \E n \in FileNames : create(n)
    \/ \E o \in FileNames, n \in FileNames : SysLinkat(o, n)
    \/ \E n \in FileNames : SysUnlinkat(n)
    \/ \E id \in 1 .. Len(disk_inodes) : write_at(id, 0, <<1>>)
    \/ \E id \in 1 .. Len(disk_inodes) : clear(id)

FsSpec == Init /\ [][FsNext]_vars

\* The root directory under create, link and unlink by name, and under
\* hard_unlink called with any handle.
FsApiNext ==
    \/ \E n \in FileNames : create(n)
    \/ \E o \in FileNames, n \in FileNames : SysLinkat(o, n)
    \/ \E n \in FileNames : SysUnlinkat(n)
    \/ \E id \in 0 .. Len(disk_inodes) : HardUnlink(id)
    \/ \E self_id \in 1 .. Len(disk_inodes), id \in 1 .. Len(disk_inodes) :
          HardUnlinkOn(self_id, id)

FsApiSpec == Init /\ [][FsApiNext]_vars

\* addresses and lengths on and off page boundaries
MmStarts == {v * PAGE_SIZE + o : v \in Vpns, o \in {0, 1}}
MmLens == {0, 1, PAGE_SIZE + 1}

\* prot values: refused (0, 8, 9), R (1), R|W (3) and W|X (6)
MmProts == {0, 1, 3, 6, 8, 9}

\* The current task under mmap and munmap.
MmNext ==
    \/ \E start \in MmStarts, len \in MmLens, prot \in MmProts :
          Len(memory_set.areas) < MaxAreas /\ do_mmap(start, len, prot)
    \/ \E start \in MmStarts, len \in MmLens : do_munmap(start, len)

MmSpec == Init /\ [][MmNext]_vars

\* Callers that run VFS operations step by step, in any interleaving.
FsLockNext ==
    \/ \E c \in Callers, op \in VfsOps : VfsCall(c, op)
    \/ \E c \in Callers : VfsStep(c)

FsLockSpec == Init /\ [][FsLockNext]_vars

\* buffer lengths around the block, direct-block and indirect1 boundaries
IoLens == {0, 1, BLOCK_SZ + 1, INODE_DIRECT_COUNT * BLOCK_SZ, MaxIoLen}

\* the buffer of n bytes whose k-th byte is (k + seed) mod (MaxByte + 1)
Pattern(n, seed) == [k \in 1 .. n |-> (k + seed) % (MaxByte + 1)]

IoBufs == {Pattern(n, seed) : n \in IoLens, seed \in 1 .. MaxByte}

\* A process that holds a buffer of bytes, creates a file, writes the buffer
\* at offset 0 while the file is empty and reads the file at offset 0.
FsIoInit ==
    /\ ProcInit
    /\ SemInit
    /\ MutexInit
    /\ root_dir = <<>>
    /\ disk_inodes = <<>>
    /\ root_inode = [type |-> "Dir", ref_count |-> 1]
    /\ free_data = DataBlocks
    /\ read_buf = <<>>
    /\ created = {}
    /\ user_buf \in IoBufs
    /\ LockInit
    /\ MmInit
    /\ KernInit

FsIoNext ==
    \/ create(1)
    \/ \E id \in 1 .. Len(disk_inodes) :
          disk_inodes[id].size = 0 /\ write_at(id, 0, user_buf)
    \/ \E id \in 1 .. Len(disk_inodes), len \in IoLens : read_at(id, 0, len)

FsIoSpec == FsIoInit /\ [][FsIoNext]_vars

\* A kernel routine that copies a buffer out to a user range and reads it
\* back, in a task that has mapped page 0 readable and writable with mmap. The
\* range, the slices it is split into and the two kernel buffers are the
\* inputs; user memory and the destination buffer start stale.
CopyPtrs == 0 .. 2

CopyLens == 0 .. MaxCopyLen

RECURSIVE SeqsUpTo(_, _)
SeqsUpTo(S, n) ==
    IF n = 0 THEN {<<>>}
    ELSE LET shorter == SeqsUpTo(S, n - 1)
         IN  shorter \cup {Append(t, x) : t \in shorter, x \in S}

Splits(len) == {t \in SeqsUpTo(0 .. len, MaxSlices) : SliceSum(t, Len(t)) = len}

CopyInit ==
    /\ ProcInit
    /\ SemInit
    /\ MutexInit
    /\ FsInit
    /\ memory_set = insert_framed_area(from_elf, 0, PAGE_SIZE, 2 + 4 + PERM_U)
    /\ mm_snap = NoSnap
    /\ KernInit
    /\ \E p \in CopyPtrs, len \in CopyLens, klen \in CopyLens, dlen \in CopyLens,
          seed \in 1 .. MaxByte :
          \E split \in Splits(len) :
             copy = [stage |-> "ready", p |-> p, len |-> len, split |-> split,
                     src |-> Pattern(klen, seed), dst |-> Fill(dlen, STALE),
                     user |-> [a \in UserAddrs |-> STALE], line |-> 0]

CopyNext ==
    \/ copy_to_user(copy.p, copy.len, copy.src)
    \/ copy_from_user(copy.dst, copy.p, copy.len)

CopySpec == CopyInit /\ [][CopyNext]_vars

\* Processes of the kernel: the init process forks, spawns and execs, tasks
\* yield or are suspended by the timer, set their priority and exit.
Priorities == {1, 2, DEFAULT_PRIORITY}

ExitCodes == {0 - 1, 1}

\* the life cycle of the tasks, every switch taken within one tick of the timer
SchedNext ==
    \/ run_tasks
    \/ suspend_current_and_run_next(0)
    \/ \E exit_code \in ExitCodes : exit_current_and_run_next(exit_code, 0)
    \/ sys_fork
    \/ sys_spawn
    \/ sys_exec
    \/ \E prio \in Priorities : sys_set_priority(prio)

SchedSpec == Init /\ [][SchedNext]_vars

\* Stride scheduling: the tasks run for up to MaxSlice ticks between two
\* switches, fork, exec and change their priority.
StridePriorities == {2}

StrideExitCodes == {0}

StrideNext ==
    \/ run_tasks
    \/ \E dtime \in Ticks : suspend_current_and_run_next(dtime)
    \/ \E exit_code \in StrideExitCodes, dtime \in Ticks :
          exit_current_and_run_next(exit_code, dtime)
    \/ sys_fork
    \/ sys_exec
    \/ \E prio \in StridePriorities : sys_set_priority(prio)

StrideSpec == Init /\ [][StrideNext]_vars

\* The heap of the current task moved by sys_sbrk, in a kernel whose tasks
\* fork and yield.
BrkSizes == {0 - 2 * (PAGE_SIZE + 1), 0 - (PAGE_SIZE + 1), 0, PAGE_SIZE + 1}

BrkNext ==
    \/ run_tasks
    \/ suspend_current_and_run_next(0)
    \/ sys_fork
    \/ \E size \in BrkSizes, resized \in BOOLEAN : change_program_brk(size, resized)

BrkSpec == Init /\ [][BrkNext]_vars

\* A mailbox used through push_bytes, pop_bytes and pop_front, in a build with
\* or without overflow checks.
RingLens == {1, 300, MAX_RINGBUF_SIZE - 1}

RingSlice(n, seed) == [k \in 1 .. n |-> (k + seed) % 256]

RingInitAnyBuild ==
    /\ ProcInit
    /\ SemInit
    /\ MutexInit
    /\ FsInit
    /\ MmInit
    /\ TaskInit
    /\ \E checks \in BOOLEAN : RingInit(checks)

RingNext ==
    \/ \E n \in RingLens, seed \in 1 .. MaxByte : push_bytes(RingSlice(n, seed))
    \/ \E len \in RingLens \cup {MAX_RINGBUF_SIZE} : pop_bytes(len)
    \/ \E nbytes \in RingLens \cup {MAX_RINGBUF_SIZE} : pop_nbytes(nbytes)
    \/ PopFront
    \/ \E c \in 1 .. MaxByte : AppendU8(c)

RingSpec == RingInitAnyBuild /\ [][RingNext]_vars

\* The methods of Banker called in any order on the banker of a new process;
\* every resource is set up once, as by its sys_semaphore_create.
BankerOp(b) ==
    /\ banker' = b
    /\ UNCHANGED <<total, semaphore_list, sem_ups, sem_returns, procvars, mutexvars, fsvars, mmvars, kernvars>>

BankerSetupResources(r, c) ==
    /\ total[r] = 0
    /\ banker' = setup_resources(banker, r, c)
    /\ total' = [total EXCEPT ![r] = c]
    /\ UNCHANGED <<semaphore_list, sem_ups, sem_returns, procvars, mutexvars, fsvars, mmvars, kernvars>>

BankerOpsNext ==
    \/ \E r \in SemIds, c \in 1 .. MaxResCount : BankerSetupResources(r, c)
    \/ \E t \in Tids, r \in SemIds :
          banker.need[t][r] < MaxNeed /\ BankerOp(need_inc(banker, t, r))
    \/ \E t \in Tids, r \in SemIds : BankerOp(allocate_one_nocheck(banker, t, r))
    \/ \E t \in Tids, r \in SemIds : BankerOp(try_allocate_one(banker, t, r))
    \/ \E t \in Tids, r \in SemIds : BankerOp(dyn_expand_dealloc(banker, t, r))
    \/ \E t \in Tids, r \in SemIds :
          banker.need[t][r] < MaxNeed /\ BankerOp(try_deallocate_one(banker, t, r))
    \/ \E t \in Tids : BankerOp(destroy_thread(banker, t))

BankerOpsSpec == Init /\ [][BankerOpsNext]_vars

\* Banker::is_safe applied to every banker over the bounded value range.
BankerInputs ==
    [available : [SemIds -> 0 .. MaxResCount],
     need      : [Tids -> [SemIds -> 0 .. MaxResCount]],
     allocated : [Tids -> [SemIds -> 0 .. MaxResCount]]]

BankerInit ==
    /\ ProcInit
    /\ MutexInit
    /\ FsInit
    /\ MmInit
    /\ KernInit
    /\ banker \in BankerInputs
    /\ total = [r \in SemIds |-> 0]
    /\ semaphore_list = <<>>
    /\ sem_ups = [r \in SemIds |-> 0]
    /\ sem_returns = [r \in SemIds |-> 0]

\* A call of Banker::is_safe; retval records its result (1 for true).
CallIsSafe ==
    /\ pc[0] = "user"
    /\ retval' = (IF is_safe(banker) THEN 1 ELSE 0)
    /\ pc' = [pc EXCEPT ![0] = "checked"]
    /\ UNCHANGED <<trace_deadlock, task_status, frame, semvars, mutexvars, fsvars, mmvars, kernvars>>

BankerNext == CallIsSafe

BankerSpec == BankerInit /\ [][BankerNext]_vars

\* ------------------------------------------------------------ properties

RECURSIVE SumOver(_, _)
SumOver(f, S) ==
    IF S = {} THEN 0
    ELSE LET x == CHOOSE y \in S : TRUE IN f[x] + SumOver(f, S \ {x})

\* the units of resource r the banker records as held by threads
AllocatedSum(b, r) == SumOver([t \in Tids |-> b.allocated[t][r]], Tids)

\* the threads a step wakes
Woken == {t \in Tids : task_status[t] = "Blocked" /\ task_status'[t] = "Ready"}

\* C1: for every resource, the banker's available units plus the units allocated
\* to all threads equal the count the resource was set up with, after any
\* sequence of setup_resources, need increments, allocate_one_nocheck,
\* try_allocate_one, dyn_expand_dealloc, try_deallocate_one and destroy_thread.
BankerConservation ==
    \A r \in SemIds : banker.available[r] + AllocatedSum(banker, r) = total[r]

\* one thread holds a unit of one resource and asks for a unit of another
\* resource, which a second thread holds
BankerConservationWitness ==
    \E r, q \in SemIds, t, u \in Tids :
        /\ r # q /\ t # u
        /\ banker.allocated[t][r] > 0
        /\ banker.need[t][q] > 0
        /\ banker.allocated[u][q] > 0
        /\ banker.available[q] = 0

\* C2: while deadlock detection is enabled, the banker state after every step of
\* sys_semaphore_down and sys_semaphore_up is safe.
BankerSafeWhileTraced == trace_deadlock => is_safe(banker)

\* the orders in which all threads can be run
ThreadOrders ==
    {p \in [1 .. NThreads -> Tids] : \A i, j \in 1 .. NThreads : i # j => p[i] # p[j]}

\* the work vector when the k-th thread of order p is tried: what is available
\* plus what the threads before it hold
WorkBefore(b, p, k) ==
    [j \in SemIds |->
        b.available[j] + SumOver([i \in 1 .. (k - 1) |-> b.allocated[p[i]][j]], 1 .. (k - 1))]

SafeOrderExists(b) ==
    \E p \in ThreadOrders :
        \A k \in 1 .. NThreads : \A j \in SemIds : b.need[p[k]][j] <= WorkBefore(b, p, k)[j]

\* C3: is_safe returns true exactly when some order of all threads lets each
\* thread's need be met by the available units plus the units held by the threads
\* before it, and the call leaves the banker as it was.
IsSafeIffSafeOrder ==
    [][CallIsSafe => /\ (retval' = 1) <=> SafeOrderExists(banker)
                     /\ banker' = banker]_vars

\* is_safe returned true for a banker whose thread 0 cannot run first
IsSafeIffSafeOrderWitness ==
    /\ pc[0] = "checked"
    /\ retval = 1
    /\ \E j \in SemIds : banker.need[0][j] > banker.available[j]
    /\ \E j \in SemIds : banker.need[1][j] > banker.available[j]

\* C4: with detection enabled, a sys_semaphore_down whose incremented need makes
\* the banker unsafe returns -0xDEAD, leaves need as it was before the call,
\* leaves the semaphore's count and wait queue unchanged and does not block the
\* caller.
RefusedDownChangesNothing ==
    [][\A t \in Tids, s \in SemIds :
          (SysSemaphoreDown(t, s) /\ trace_deadlock /\ ~is_safe(need_inc(banker, t, s)))
          => /\ retval' = -DEAD
             /\ banker' = banker
             /\ semaphore_list' = semaphore_list
             /\ task_status' = task_status
             /\ pc' = pc]_vars

\* a down was refused: -0xDEAD was returned although detection is on, no
\* Semaphore::down was ever called and every thread is alive and not blocked
RefusedDownWitness ==
    /\ retval = -DEAD
    /\ trace_deadlock
    /\ semaphore_list # <<>>
    /\ \A k \in 1 .. Len(semaphore_list) : semaphore_list[k].access_cnt = 0
    /\ \A t \in Tids : InUser(t)
    /\ banker.need = BankerNew.need

\* C5: sys_semaphore_down returns 0 whenever the caller acquires a unit, at once
\* or after it was woken, and -0xDEAD only when the request was refused.
DownReturnsZeroOnAcquire ==
    [][\A t \in Tids :
          /\ \A s \in SemIds :
                (SysSemaphoreDown(t, s) /\ sem_returns'[s] = sem_returns[s] + 1)
                => retval' = 0
          /\ SysSemaphoreDownResume(t) => retval' = 0]_vars

\* the threads that hold mutex m
Owners(m) == {t \in Tids : m \in owns[t]}

\* C6: when threads unlock only mutexes they hold, a mutex of either kind is
\* held by at most one thread at a time; a thread holds it from the return of its
\* lock, or from the wake-up that hands it over, until its own unlock.
MutualExclusion ==
    \A m \in 0 .. (NMutexes - 1) : Cardinality(Owners(m)) <= 1

\* a blocking mutex was handed to a woken thread while another thread waits
MutualExclusionWitness ==
    \E m \in 0 .. (NMutexes - 1), t \in Tids :
        /\ m < Len(mutex_list)
        /\ mutex_list[m + 1].blocking
        /\ pc[t] = "lock_woken"
        /\ m \in owns[t]
        /\ mutex_list[m + 1].wait_queue # <<>>

\* C7: with detection enabled, sys_mutex_lock on a blocking mutex that the caller
\* holds returns -0xDEAD, does not block and does not change the mutex, also
\* when the caller got the mutex handed over by an unlock.
OwnerRelockRefused ==
    [][\A t \in Tids, m \in 0 .. (NMutexes - 1) :
          (SysMutexLock(t, m) /\ trace_deadlock /\ mutex_list[m + 1].blocking
             /\ m \in owns[t])
          => /\ retval' = -DEAD
             /\ mutex_list' = mutex_list
             /\ task_status' = task_status]_vars

\* a queue changes by a push at the back, or by a pop at the front that wakes the
\* popped thread
FifoStep(q, qn) ==
    \/ qn = q
    \/ \E t \in Tids : qn = Append(q, t)
    \/ q # <<>> /\ qn = Tail(q) /\ Woken = {Head(q)}

\* C8: the waiters of a semaphore and of a blocking mutex are woken in the order
\* in which they blocked, and an up or unlock wakes at most one thread.
FifoWakeups ==
    [][/\ Cardinality(Woken) <= 1
       /\ \A k \in 1 .. Len(semaphore_list) :
             FifoStep(semaphore_list[k].wait_queue, semaphore_list'[k].wait_queue)
       /\ \A k \in 1 .. Len(mutex_list) :
             FifoStep(mutex_list[k].wait_queue, mutex_list'[k].wait_queue)
       /\ Woken # {} =>
             \/ \E k \in 1 .. Len(semaphore_list) :
                   semaphore_list'[k].wait_queue # semaphore_list[k].wait_queue
             \/ \E k \in 1 .. Len(mutex_list) :
                   mutex_list'[k].wait_queue # mutex_list[k].wait_queue]_vars

\* a semaphore woke its first waiter while a later one still waits
FifoWakeupsWitness ==
    \E k \in 1 .. Len(semaphore_list), t \in Tids :
        /\ pc[t] = "down_woken"
        /\ frame[t].id = k - 1
        /\ semaphore_list[k].wait_queue # <<>>

\* C9: a semaphore created with count c has a wait queue of length
\* max(0, -count); a down blocks exactly when count was <= 0 before it; an up
\* wakes exactly one waiter exactly when count was < 0 before it; and the downs
\* that have returned never exceed c plus the ups.
SemaphoreCounting ==
    [][/\ \A k \in 1 .. Len(semaphore_list') :
             Len(semaphore_list'[k].wait_queue) =
                 (IF semaphore_list'[k].count < 0 THEN -semaphore_list'[k].count ELSE 0)
       /\ \A s \in SemIds : sem_returns'[s] <= total'[s] + sem_ups'[s]
       /\ \A t \in Tids, s \in SemIds :
             /\ (SysSemaphoreDown(t, s)
                   /\ semaphore_list'[s + 1].access_cnt # semaphore_list[s + 1].access_cnt)
                => ((task_status'[t] = "Blocked") <=> (semaphore_list[s + 1].count <= 0))
             /\ SysSemaphoreUp(t, s)
                => Cardinality(Woken) = (IF semaphore_list[s + 1].count < 0 THEN 1 ELSE 0)]_vars

\* a waiter was woken and returned, as many downs have returned as the initial
\* count plus the ups allow, and another thread still waits
SemaphoreCountingWitness ==
    \E s \in SemIds :
        /\ s < Len(semaphore_list)
        /\ semaphore_list[s + 1].wait_queue # <<>>
        /\ sem_ups[s] >= 1
        /\ sem_returns[s] = total[s] + sem_ups[s]

\* the directory entries that point to inode id
LinkCount(id) == Cardinality({k \in 1 .. Len(root_dir) : root_dir[k].inode_id = id})

\* C10: after any sequence of create, link_file and unlink_file on the root
\* directory, the ref_count of every inode equals the number of directory
\* entries that point to it.
RefCountIsLinkCount ==
    \A id \in 1 .. Len(disk_inodes) : disk_inodes[id].ref_count = LinkCount(id)

\* C11: when unlink_file(name) returns Ok, find(name) returns None afterwards,
\* and every other name still resolves to the inode it resolved to before,
\* whose data reads as before.
UnlinkRemovesName ==
    [][\A n \in FileNames :
          (SysUnlinkat(n) /\ retval' = 0) =>
              /\ find_inode_id(n, root_dir') = {}
              /\ \A m \in FileNames \ {n} :
                    /\ find_inode_id(m, root_dir') = find_inode_id(m, root_dir)
                    /\ \A id \in find_inode_id(m, root_dir) :
                          DiskInodeReadAt(disk_inodes'[id], 0, disk_inodes[id].size)
                              = DiskInodeReadAt(disk_inodes[id], 0, disk_inodes[id].size)]_vars

\* what hard_link must do to the directory and the inodes: one entry
\* (to_name, from_id) appended and one more reference to from_id
Linked(dir, inodes, from_id, to_name, dir2, inodes2) ==
    /\ dir2 = Append(dir, [name |-> to_name, inode_id |-> from_id])
    /\ inodes2 = [inodes EXCEPT ![from_id].ref_count = @ + 1]

\* C12: hard_link(source, new_name) with new_name absent adds exactly 1 to the
\* ref_count of source and appends exactly the entry (new_name, source id),
\* all else unchanged; with new_name present it fails and changes nothing.
\* link_file succeeds in the same way when the names differ, the source
\* exists and new_name is absent, and else fails and changes nothing.
HardLinkEffect ==
    [][/\ \A id \in 1 .. Len(disk_inodes), n \in FileNames :
             LET r == hard_link(root_dir, disk_inodes, id, n)
             IN  IF find_inode_id(n, root_dir) = {}
                 THEN r.ok /\ Linked(root_dir, disk_inodes, id, n, r.dir, r.inodes)
                 ELSE ~r.ok /\ r.dir = root_dir /\ r.inodes = disk_inodes /\ r.alloc = 0
       /\ \A o \in FileNames, n \in FileNames :
             SysLinkat(o, n) =>
                 LET from == find_inode_id(o, root_dir)
                 IN  IF o # n /\ from # {} /\ find_inode_id(n, root_dir) = {}
                     THEN /\ retval' = 0
                          /\ Linked(root_dir, disk_inodes, First(from), n,
                                    root_dir', disk_inodes')
                     ELSE /\ retval' = -1
                          /\ UNCHANGED fsvars]_vars

\* a link has succeeded: an inode has two references and two entries
HardLinkEffectWitness ==
    \E id \in 1 .. Len(disk_inodes) :
        disk_inodes[id].ref_count = 2 /\ LinkCount(id) = 2

\* C13: when hard_unlink brings the ref_count of an inode to 0, the size of
\* the inode becomes 0 and the free data blocks grow by the blocks the inode
\* held (and by the blocks the shrinking directory gives back).
UnlinkFreesBlocks ==
    [][\A n \in FileNames :
          SysUnlinkat(n) =>
              \A id \in find_inode_id(n, root_dir) :
                  (disk_inodes[id].ref_count > 0 /\ disk_inodes'[id].ref_count = 0) =>
                      /\ disk_inodes'[id].size = 0
                      /\ free_data' = free_data + total_blocks(disk_inodes[id].size)
                                         + total_blocks(DirSize(root_dir))
                                         - total_blocks(DirSize(root_dir'))]_vars

\* C14: create(name) returns None and changes nothing when an entry of that
\* name exists; otherwise it returns a handle of a new inode id that no entry
\* uses, the inode is an empty File with one reference, the directory grows by
\* one 32-byte entry (name, id) placed last, and find(name) then gives id.
CreateEffect ==
    [][\A n \in FileNames :
          create(n) =>
              IF find_inode_id(n, root_dir) # {}
              THEN created' = {} /\ UNCHANGED <<root_dir, disk_inodes, free_data>>
              ELSE \E id \in created' :
                      /\ created' = {id}
                      /\ id \notin 1 .. Len(disk_inodes)
                      /\ \A k \in 1 .. Len(root_dir) : root_dir[k].inode_id # id
                      /\ disk_inodes'[id] =
                             [type |-> "File", ref_count |-> 1, size |-> 0, data |-> <<>>]
                      /\ \A j \in 1 .. Len(disk_inodes) : disk_inodes'[j] = disk_inodes[j]
                      /\ DirSize(root_dir') = DirSize(root_dir) + 32
                      /\ SubSeq(root_dir', 1, Len(root_dir)) = root_dir
                      /\ root_dir'[Len(root_dir')] = [name |-> n, inode_id |-> id]
                      /\ find_inode_id(n, root_dir') = {id}]_vars

\* a create has returned a handle and its entry is the last of a directory
\* that held another entry before
CreateEffectWitness ==
    \E id \in created :
        /\ Len(root_dir) >= 2
        /\ root_dir[Len(root_dir)].inode_id = id
        /\ disk_inodes[id].ref_count = 1

\* C15: on a fresh (empty) file, write_at(0, B) with B fitting in the free
\* space returns |B|, sets size to |B| and leaves B as the content of the
\* file; read_at(0, buf) with |buf| equal to the size then returns that
\* length with buf equal to the content, so the bytes read are B.
RoundTripIo ==
    [][\A id \in 1 .. Len(disk_inodes) :
          /\ (disk_inodes[id].size = 0 /\ write_at(id, 0, user_buf)) =>
                 /\ retval' = Len(user_buf)
                 /\ disk_inodes'[id].size = Len(user_buf)
                 /\ disk_inodes'[id].data = user_buf
          /\ read_at(id, 0, disk_inodes[id].size) =>
                 /\ retval' = disk_inodes[id].size
                 /\ read_buf' = disk_inodes[id].data]_vars

\* a buffer of MaxIoLen bytes, which needs the indirect1 block, was written
\* and read back whole
RoundTripIoWitness ==
    /\ Len(user_buf) = MaxIoLen
    /\ retval = MaxIoLen
    /\ read_buf = user_buf
    /\ free_data = DataBlocks - total_blocks(MaxIoLen) - 1
    /\ total_blocks(MaxIoLen) > data_blocks(MaxIoLen)

\* the operation of caller c has entered a cache closure and has not yet left
\* its last one
BetweenAccesses(c) ==
    /\ vfs_pc[c].op # "none"
    /\ \E k \in 1 .. (vfs_pc[c].at - 1) : VfsPaths[vfs_pc[c].op][k] = "enter"
    /\ \E k \in vfs_pc[c].at .. Len(VfsPaths[vfs_pc[c].op]) :
          VfsPaths[vfs_pc[c].op][k] = "exit"

\* C16: every VFS Inode operation holds the global filesystem lock whenever
\* it is inside an access to a disk inode or directory block through the
\* block cache, and no operation is inside such an access between the first
\* and the last access of another operation.
CacheAccessUnderFsLock ==
    /\ \A c \in Callers : vfs_pc[c].in_cache => fs_lock = c
    /\ \A c \in Callers, d \in Callers :
          (c # d /\ BetweenAccesses(c)) => ~vfs_pc[d].in_cache

\* the filesystem state: inodes, directory entries and free blocks
FsState == <<root_dir, disk_inodes, root_inode, free_data>>

\* C17: whenever create returns None, or hard_link or hard_unlink returns Err
\* (also through link_file and unlink_file), every inode's ref_count and
\* size, the directory's entries and the free blocks are as before the call.
NoPartialCommit ==
    [][/\ \A n \in FileNames : (create(n) /\ created' = {}) => UNCHANGED FsState
       /\ \A id \in 1 .. Len(disk_inodes), n \in FileNames :
             LET r == hard_link(root_dir, disk_inodes, id, n)
             IN  ~r.ok => (r.dir = root_dir /\ r.inodes = disk_inodes /\ r.alloc = 0)
       /\ \A o \in FileNames, n \in FileNames :
             (SysLinkat(o, n) /\ retval' = -1) => UNCHANGED FsState
       /\ \A n \in FileNames :
             (SysUnlinkat(n) /\ retval' = -1) => UNCHANGED FsState
       /\ \A id \in 0 .. Len(disk_inodes) :
             (HardUnlink(id) /\ retval' = -1) => UNCHANGED FsState]_vars

\* len rounded up to a multiple of 4096
RoundUp(len) == ((len + 4095) \div 4096) * 4096

\* the pages that overlap [start, start + RoundUp(len))
PagesOf(start, len) ==
    {v \in 0 .. (NPages + 2) : v * 4096 < start + RoundUp(len) /\ start < (v + 1) * 4096}

\* the pages that have a valid mapping
Mapped == {v \in DOMAIN memory_set.page_table : memory_set.page_table[v].valid}

\* C18: do_mmap(start, len, prot) returns -1 and leaves the memory set as it
\* was when start is not a multiple of 4096, or prot is 0 or at least 8, or a
\* page of [start, start + roundup(len, 4096)) has a valid mapping.
MmapRefusals ==
    [][/\ \A prot \in 0 .. 16 :
             (uprot_to_permission(prot) = {}) <=> (prot = 0 \/ prot >= 8)
       /\ \A start \in MmStarts, len \in MmLens, prot \in MmProts :
             (/\ \/ start % 4096 # 0
                 \/ prot = 0
                 \/ prot >= 8
                 \/ PagesOf(start, len) \cap Mapped # {}
              /\ do_mmap(start, len, prot)) =>
                 (retval' = -1 /\ memory_set' = memory_set)]_vars

\* a do_mmap has been refused because a page of its range was mapped by an
\* earlier do_mmap
MmapRefusalsWitness ==
    /\ mm_snap.stage = "refused"
    /\ mm_snap.line = 130
    /\ retval = -1
    /\ \E k \in 1 .. Len(memory_set.areas) :
          memory_set.areas[k].user /\ memory_set.areas[k].l \in Mapped

\* C19: when do_mmap(s, l, prot) has returned 0, a do_munmap(s, l) that
\* follows it returns 0 and leaves the page table (the mapped pages and their
\* translations) as it was before the do_mmap.
MmapMunmapRoundTrip ==
    [][(mm_snap.stage = "mapped" /\ do_munmap(mm_snap.start, mm_snap.len)) =>
          (retval' = 0 /\ memory_set'.page_table = mm_snap.before)]_vars

\* a do_mmap of two pages next to other mapped pages was undone by do_munmap
MmapMunmapRoundTripWitness ==
    /\ mm_snap.stage = "unmapped"
    /\ mm_snap.len > PAGE_SIZE
    /\ retval = 0
    /\ Cardinality(Mapped) >= 2
    /\ memory_set.page_table = mm_snap.before

\* the claim's case: every page of [p, p + len) has a valid translation in the
\* memory set of the task, and both kernel buffers hold at least len bytes
CopyCase ==
    /\ copy.stage # "none"
    /\ \A a \in copy.p .. (copy.p + copy.len - 1) :
          \E pte \in translate(memory_set, a \div PAGE_SIZE) : is_valid(pte)
    /\ Len(copy.src) >= copy.len
    /\ Len(copy.dst) >= copy.len

\* what the claim promises of a copy: no panic, user bytes outside
\* [p, p + len) are untouched, and the bytes read back are the bytes written
CopyResult ==
    /\ copy.stage # "panic"
    /\ copy.stage \in {"to_user", "from_user"} =>
          \A a \in UserAddrs :
             (a < copy.p \/ a >= copy.p + copy.len) => copy.user[a] = STALE
    /\ copy.stage = "from_user" =>
          \A k \in 1 .. copy.len : copy.dst[k] = copy.src[k]

\* C20 as stated: for every mapped user range [p, p + len), every split of it
\* into slices and every kernel buffer of at least len bytes, copy_to_user
\* followed by copy_from_user yields dst[0..len] = src[0..len], copy_to_user
\* writes no user byte outside the range, and neither routine panics.
CopyFidelityAnyPointer == CopyCase => CopyResult

\* C20: the same for every mapped user range that does not start at address 0;
\* on a null pointer copy_to_user panics at its assertion.
CopyFidelity ==
    /\ (CopyCase /\ copy.p # 0) => CopyResult
    /\ (CopyCase /\ copy.p = 0 /\ copy.stage # "ready") =>
          (copy.stage = "panic" /\ copy.line = 40)

\* a three-byte range split into three slices was written and read back
CopyFidelityWitness ==
    /\ CopyCase
    /\ copy.stage = "from_user"
    /\ copy.p # 0
    /\ copy.len = MaxCopyLen
    /\ Len(copy.split) = 3
    /\ \A i \in 1 .. 3 : copy.split[i] > 0
    /\ copy.src[1] # copy.src[2]
    /\ \A k \in 1 .. copy.len : copy.dst[k] = copy.src[k]

\* C21: RingBuffer::push_bytes returns exactly the number of bytes it stored:
\* length() after the call equals length() before it plus the returned value,
\* also when the ring becomes full during the call.
PushBytesCount ==
    ring_log.op = "push_bytes" => length(ring) = ring_log.before_len + ring_log.ret

\* C22: the bytes pop_bytes and pop_front return are the stored bytes in the
\* order they were pushed, pop_bytes returns min(requested length, length()),
\* and pushing a sequence no longer than the free space stores all of it
\* behind the bytes stored before.
FifoRoundTrip ==
    /\ ring_log.op \in {"pop_bytes", "pop_front"} =>
          /\ ring_log.out = SubSeq(ring_log.before_fifo, 1, ring_log.ret)
          /\ ring_log.fifo = DropFirst(ring_log.before_fifo, ring_log.ret)
    /\ ring_log.op = "pop_bytes" =>
          ring_log.ret = Min(Len(ring_log.bytes), ring_log.before_len)
    /\ (/\ ring_log.op \in {"push_bytes", "append_u8", "panic"}
        /\ Len(ring_log.bytes) <= MAX_RINGBUF_SIZE - 1 - ring_log.before_len) =>
          /\ ring_log.op # "panic"
          /\ ring_log.fifo = ring_log.before_fifo \o ring_log.bytes
    /\ ring_log.op # "panic" => length(ring) = Len(ring_log.fifo)

\* C27: change_program_brk keeps program_brk >= heap_bottom in every reachable
\* state: when program_brk + size < heap_bottom or the resize of the memory set
\* fails, sys_sbrk returns -1 and program_brk is unchanged; otherwise sys_sbrk
\* returns the old break and program_brk is the old break plus size.
BrkAboveHeapBottom ==
    /\ \A q \in Pids :
          tcbs[q].task_status # "UnInit" => tcbs[q].program_brk >= tcbs[q].heap_bottom
    /\ sched_log.op = "sbrk" =>
          LET inner == tcbs[sched_log.pid]
          IN  IF sched_log.old_break + sched_log.size < inner.heap_bottom
                 \/ ~sched_log.resized
              THEN retval = 0 - 1 /\ inner.program_brk = sched_log.old_break
              ELSE /\ retval = sched_log.old_break
                   /\ inner.program_brk = sched_log.old_break + sched_log.size

\* a forked task has shrunk its heap back to heap_bottom, and sys_sbrk
\* returned the break it had grown to before
BrkAboveHeapBottomWitness ==
    /\ sched_log.op = "sbrk"
    /\ sched_log.pid # IDLE_PID
    /\ sched_log.size < 0
    /\ retval = sched_log.old_break
    /\ retval > tcbs[sched_log.pid].heap_bottom
    /\ tcbs[sched_log.pid].program_brk = tcbs[sched_log.pid].heap_bottom

\* C23: the order of Stride is the exact reverse of the numeric order of the
\* stride values, every queued Stride carries the stride of its task, and the
\* task the scheduler picks has a stride that is less than or equal to the
\* stride of every task that was queued with it.
StridePickSmallest ==
    /\ \A a \in sched_log.from \cup ready_queue, b \in sched_log.from \cup ready_queue :
          /\ StrideCmp(a, b) = "Greater" <=> a.stride < b.stride
          /\ StrideCmp(a, b) = "Equal" <=> a.stride = b.stride
          /\ StrideCmp(a, b) = "Less" <=> a.stride > b.stride
    /\ \A e \in ready_queue : e.stride = tcbs[e.pid].sched_info._stride
    /\ \A e \in sched_log.pick :
          /\ e \in sched_log.from
          /\ current = e.pid
          /\ tcbs[e.pid].sched_info._stride = e.stride
          /\ \A o \in sched_log.from : e.stride <= o.stride

\* a pick among three queued tasks of which one has a greater stride than the
\* task picked
StridePickSmallestWitness ==
    /\ Cardinality(sched_log.from) = NTasks
    /\ \E e \in sched_log.pick : \E o \in sched_log.from : o.stride > e.stride

\* C24: a step that deactivates the Running task, by suspend or by exit, adds
\* exactly pass * (last_deactivate_time - last_activate_time) to its stride,
\* where pass is 65537 div priority; in any step the stride of a task gets
\* smaller only when fork or exec resets it to 0.
StrideUpdateStep ==
    \A q \in Pids :
        LET old == tcbs[q]
            new == tcbs'[q]
        IN  /\ (sched_log'.op \in {"suspend", "exit"} /\ sched_log'.pid = q) =>
                  /\ old.task_status = "Running"
                  /\ old.sched_info._pass = DEFAULT_BIG_STRIDE \div old.sched_info._priority
                  /\ new.statistics.last_deactivate_time = now'
                  /\ new.sched_info._stride =
                        old.sched_info._stride
                        + (DEFAULT_BIG_STRIDE \div old.sched_info._priority)
                          * (new.statistics.last_deactivate_time
                             - old.statistics.last_activate_time)
            /\ new.sched_info._stride < old.sched_info._stride =>
                  /\ sched_log'.op \in {"fork", "exec"}
                  /\ sched_log'.pid = q
                  /\ new.sched_info._stride = 0

StrideUpdate == [][StrideUpdateStep]_vars

\* a task of priority 2 that exits at the end of a full slice, its first
StrideUpdateWitness ==
    /\ sched_log.op = "exit"
    /\ sched_log.dtime = MaxSlice
    /\ tcbs[sched_log.pid].sched_info._priority = 2
    /\ tcbs[sched_log.pid].sched_info._stride = MaxSlice * (DEFAULT_BIG_STRIDE \div 2)

\* the greatest pass * ticks one slice can add to a stride: the pass of the
\* least priority a task can have, 2, for MaxSlice ticks
MaxSlicePass == (DEFAULT_BIG_STRIDE \div 2) * MaxSlice

ZombieStep ==
    \A q \in Pids \ {IDLE_PID} :
        /\ (sched_log'.op = "exit" /\ sched_log'.pid = q) =>
              /\ tcbs[q].task_status = "Running"
              /\ tcbs'[q].task_status = "Zombie"
              /\ tcbs'[q].exit_code = sched_log'.exit_code
              /\ \A k \in 1 .. Len(tcbs[q].children) :
                    LET child == tcbs[q].children[k]
                    IN  /\ tcbs'[child].parent = IDLE_PID
                        /\ \E j \in 1 .. Len(tcbs'[IDLE_PID].children) :
                              tcbs'[IDLE_PID].children[j] = child
        /\ tcbs'[q].task_status = "Zombie" =>
              /\ tcbs'[q].children = <<>>
              /\ tcbs'[q].recycled
              /\ current' # q
              /\ \A e \in ready_queue' : e.pid # q
        /\ tcbs[q].task_status = "Zombie" =>
              tcbs'[q] = [tcbs[q] EXCEPT !.parent = tcbs'[q].parent]

DownMovesOneUnit ==
    [][\A t \in Tids :
          /\ \A s \in SemIds :
                (SysSemaphoreDown(t, s) /\ sem_returns'[s] = sem_returns[s] + 1)
                => /\ banker'.need[t][s] = banker.need[t][s]
                   /\ banker'.allocated[t][s] = banker.allocated[t][s] + 1
                   /\ banker'.available[s] = banker.available[s] - 1
          /\ SysSemaphoreDownResume(t)
                => /\ banker'.need[t][frame[t].id] = banker.need[t][frame[t].id] - 1
                   /\ banker'.allocated[t][frame[t].id] =
                         banker.allocated[t][frame[t].id] + 1
                   /\ banker'.available[frame[t].id] = banker.available[frame[t].id] - 1]_vars

\* C30: every sys_semaphore_up(sem) increases available[sem] by exactly 1,
\* taking the unit from allocated, and wakes exactly one waiter if the wait
\* queue of the semaphore is not empty (none if it is empty), whichever thread
\* performs the up, a thread that holds no unit of sem included.
UpMovesOneUnit ==
    [][\A t \in Tids, s \in SemIds :
          SysSemaphoreUp(t, s)
          => /\ banker'.available[s] = banker.available[s] + 1
             /\ Cardinality(Woken) =
                   IF semaphore_list[s + 1].wait_queue # <<>> THEN 1 ELSE 0]_vars

\* C31: hard_unlink on an inode whose ref_count is 0 returns an error
\* (sys_unlinkat returns -1) and changes nothing, so that no ref_count ever
\* goes below 0; hard_unlink called on an inode that is not a directory
\* returns an error and changes nothing.
DoubleFreeRefused ==
    [][/\ \A n \in FileNames :
             (/\ SysUnlinkat(n)
              /\ \E id \in find_inode_id(n, root_dir) : disk_inodes[id].ref_count = 0)
             => (retval' = -1 /\ UNCHANGED FsState)
       /\ \A id \in 1 .. Len(disk_inodes) :
             (HardUnlink(id) /\ disk_inodes[id].ref_count = 0)
             => (retval' = -1 /\ UNCHANGED FsState)
       /\ (HardUnlink(0) /\ root_inode.ref_count = 0)
             => (retval' = -1 /\ UNCHANGED FsState)
       /\ \A self_id \in 1 .. Len(disk_inodes), id \in 1 .. Len(disk_inodes) :
             HardUnlinkOn(self_id, id) => (retval' = -1 /\ UNCHANGED FsState)
       /\ root_inode'.ref_count >= 0
       /\ \A id \in 1 .. Len(disk_inodes') : disk_inodes'[id].ref_count >= 0]_vars

\* an unlink was refused while a name of the directory leads to an inode whose
\* ref_count is 0
DoubleFreeRefusedWitness ==
    /\ retval = -1
    /\ \E k \in 1 .. Len(root_dir) : disk_inodes[root_dir[k].inode_id].ref_count = 0
    /\ \A id \in 1 .. Len(disk_inodes) : disk_inodes[id].ref_count = 0

\* C32: a do_mmap(start, len, prot) that returns 0 maps exactly the pages of
\* [start, start + roundup(len, 4096)), each to a frame that was not in use,
\* as one new framed area whose permission bits are (prot << 1) with the user
\* bit U; every page outside that range keeps the mapping it had, or stays
\* unmapped.
MmapInstallsArea ==
    [][\A start \in MmStarts, len \in MmLens, prot \in MmProts :
          (do_mmap(start, len, prot) /\ retval' = 0) =>
              LET pages == PagesOf(start, len)
                  pt == memory_set.page_table
                  pt2 == memory_set'.page_table
              IN  /\ pages \cap Mapped = {}
                  /\ DOMAIN pt2 = DOMAIN pt \cup pages
                  /\ \A v \in DOMAIN pt : v \notin pages => pt2[v] = pt[v]
                  /\ \A v \in pages :
                        /\ pt2[v].valid
                        /\ pt2[v].flags = 2 * prot + PERM_U
                        /\ pt2[v].ppn \notin UsedFrames(pt)
                        /\ \A w \in pages \ {v} : pt2[w].ppn # pt2[v].ppn
                  /\ memory_set'.areas =
                        Append(memory_set.areas,
                               [l |-> start \div 4096,
                                r |-> (start + RoundUp(len)) \div 4096,
                                perm |-> 2 * prot + PERM_U,
                                user |-> TRUE])]_vars

\* a do_mmap of two pages succeeded next to pages that were mapped before it
MmapInstallsAreaWitness ==
    /\ mm_snap.stage = "mapped"
    /\ retval = 0
    /\ mm_snap.len > PAGE_SIZE
    /\ Cardinality(DOMAIN mm_snap.before) >= 2
    /\ Cardinality(Mapped) = Cardinality(DOMAIN mm_snap.before) + 2

\* C33: in every state of a ring, reached by append_u8, pop_front, push_bytes,
\* pop_bytes and pop_nbytes in any order, head_ and tail_ are in 0 .. 511,
\* length() is the number of bytes stored and not yet popped, length() is at
\* most 511, is_empty() holds exactly when length() is 0, and an append_u8
\* that returned left its byte out exactly when length() was 511.
RingStateInvariant ==
    /\ ring.head_ \in 0 .. (MAX_RINGBUF_SIZE - 1)
    /\ ring.tail_ \in 0 .. (MAX_RINGBUF_SIZE - 1)
    /\ length(ring) = Len(ring_log.fifo)
    /\ length(ring) <= MAX_RINGBUF_SIZE - 1
    /\ is_empty(ring) <=> length(ring) = 0
    /\ ring_log.op = "append_u8" =>
           /\ (ring_log.fifo = ring_log.before_fifo) <=> (ring_log.before_len = MAX_RINGBUF_SIZE - 1)
           /\ ring_log.fifo # ring_log.before_fifo => ring_log.fifo = Append(ring_log.before_fifo, ring_log.bytes[1])

\* a full ring that wraps around the end of data_ has refused a byte
RingStateInvariantWitness ==
    /\ ring_log.op = "append_u8"
    /\ ring_log.before_len = MAX_RINGBUF_SIZE - 1
    /\ ring.head_ < ring.tail_
    /\ ring_log.fifo = ring_log.before_fifo
    /\ length(ring) = MAX_RINGBUF_SIZE - 1

\* C39: on the ring of every reachable state, the two differences of is_full
\* (tail_ - head_ and tail_ + 512 - head_) stay within usize, is_full does not
\* panic, and it answers true exactly when length() is 511.
IsFullInRange ==
    /\ ring.tail_ - ring.head_ >= 0
    /\ ring.tail_ + MAX_RINGBUF_SIZE - ring.head_ >= 0
    /\ is_full(ring, ring_log.checks).panic = FALSE
    /\ is_full(ring, ring_log.checks).full <=> (length(ring) = MAX_RINGBUF_SIZE - 1)

\* C38: after any sequence of create, link_file and unlink_file on the root
\* directory, every directory entry refers to an inode whose ref_count is at
\* least 1.
NoDanglingNames ==
    \A k \in 1 .. Len(root_dir) : disk_inodes[root_dir[k].inode_id].ref_count >= 1

\* C36: a sys_semaphore_down that returns -0xDEAD without having called
\* Semaphore::down (the banker refused the request, or every other thread is
\* Blocked) leaves the banker's need, allocated and available as they were.
RefusalRestoresBanker ==
    [][\A t \in Tids, s \in SemIds :
          (/\ SysSemaphoreDown(t, s)
           /\ DownVetoed(t, s) \/ DownAllBlocked(t, s)
           /\ semaphore_list' = semaphore_list
           /\ retval' = -DEAD)
          => /\ banker'.need = banker.need
             /\ banker'.allocated = banker.allocated
             /\ banker'.available = banker.available]_vars

\* C37: with deadlock detection enabled, a sys_semaphore_down on a semaphore
\* whose count is at least 1 and whose request leaves the banker safe is
\* granted: Semaphore::down is called and the caller returns from it with the
\* unit, whatever the number of threads and the status of the others.
SafeDownGranted ==
    [][\A t \in Tids, s \in SemIds :
          (/\ SysSemaphoreDown(t, s)
           /\ trace_deadlock
           /\ semaphore_list[s + 1].count >= 1
           /\ is_safe(need_inc(banker, t, s)))
          => /\ semaphore_list'[s + 1].count = semaphore_list[s + 1].count - 1
             /\ sem_returns'[s] = sem_returns[s] + 1
             /\ task_status'[t] = "Ready"]_vars

\* C34: with deadlock detection enabled, sys_mutex_lock on a blocking mutex
\* returns -0xDEAD only to a thread that owns the mutex or is in its wait
\* queue; a thread that released the mutex, also by handing it to a waiter, is
\* not refused when it locks again.
DeadOnlyForOwnerOrWaiter ==
    [][\A t \in Tids, m \in 0 .. (NMutexes - 1) :
          (/\ SysMutexLock(t, m)
           /\ mutex_list[m + 1].blocking
           /\ pc'[t] = "user"
           /\ retval' = -DEAD)
          => \/ m \in owns[t]
             \/ \E k \in 1 .. Len(mutex_list[m + 1].wait_queue) :
                   mutex_list[m + 1].wait_queue[k] = t]_vars

\* C35: in every state of a blocking mutex, locked is true exactly when some
\* thread owns it, lock_holder is then the tid of that thread (also after the
\* mutex was handed to a woken waiter), and a mutex that is not locked has
\* lock_holder usize::MAX and an empty wait queue.
HolderTracking ==
    \A m \in 0 .. (Len(mutex_list) - 1) :
        mutex_list[m + 1].blocking =>
            /\ mutex_list[m + 1].locked <=> (Owners(m) # {})
            /\ mutex_list[m + 1].locked => Owners(m) = {mutex_list[m + 1].lock_holder}
            /\ ~mutex_list[m + 1].locked =>
                  /\ mutex_list[m + 1].lock_holder = NO_HOLDER
                  /\ mutex_list[m + 1].wait_queue = <<>>

\* every thread that owns a mutex calls unlock on it later
OwnersUnlock ==
    \A t \in Tids, m \in 0 .. (NMutexes - 1) : [](m \in owns[t] => <>(m \notin owns[t]))

\* C40: under fair scheduling, if every thread that owns a blocking mutex
\* eventually calls unlock, every thread that blocks in MutexBlocking::lock is
\* eventually woken as the owner of the mutex.
BlockedEventuallyOwner ==
    OwnersUnlock =>
        \A t \in Tids :
            (pc[t] = "lock_blocked") ~> (pc[t] = "lock_woken" /\ frame[t].id \in owns[t])

\* the last of two waiters was woken as the owner
BlockedEventuallyOwnerWitness ==
    /\ Len(mutex_list) = 1
    /\ mutex_list[1].blocking
    /\ mutex_list[1].wait_queue = <<>>
    /\ pc[2] = "lock_woken"
    /\ 0 \in owns[2]
    /\ pc[1] = "user"
    /\ retval = 0

====
